---- MODULE Spec2Model ----
(***************************************************************************)
(* The client-side HTTP response cache (apiCache) and the endpoint         *)
(* wrappers of lib/api/endpoints that consult it.                          *)
(*                                                                         *)
(* The wrappers are modelled from their source.  The cache module itself   *)
(* (./cache) is modelled from its specification: a mapping from an encoded *)
(* key to an entry {endpoint, value, storedAt, ttl}, lazy expiry, clear by *)
(* exact key or by originating endpoint identifier.                        *)
(*                                                                         *)
(* Strings are sequences of tokens, so that concatenation is \o.  Times    *)
(* are milliseconds.                                                       *)
(***************************************************************************)
EXTENDS Integers, Sequences, FiniteSets, TLC

VARIABLES
    store,      \* Entry Store: encoded key -> entry
    now,        \* the clock, in milliseconds
    pending,    \* network requests in flight: request -> how many
    lastSet,    \* history: (endpoint, parameter mapping) -> the last set not yet cleared
    dropped,    \* history: the sets that the step just taken overwrote or cleared
    threw,      \* history: the step just taken is a wrapper throwing the request's error
    got,        \* history: the direct get the step just taken made, with its result
    invalidated,    \* history: the requests whose key a clear addressed while they were in flight
    basketballPage, \* the BasketballPage component: its state, effects and timers
    leftBar,        \* the BasketballLeftBar component: its state and the runs of its effect
    leaguePage      \* the BasketballLeague page: its state and the calls it awaits

\* The cache, the clock and the network, with their history.
cacheVars == <<store, now, pending, lastSet, dropped, threw, got>>

\* What the cache calls and the wrappers, taken by themselves, say nothing about.
components == <<basketballPage, leftBar, leaguePage>>

besideCache == <<invalidated, basketballPage, leftBar, leaguePage>>

\* What the basketball page says nothing about.
besidePage == <<invalidated, leftBar, leaguePage>>

vars == <<store, now, pending, lastSet, dropped, threw, got, invalidated, basketballPage,
          leftBar, leaguePage>>

----------------------------------------------------------------------------
(* Bounds of the model *)

MaxTicks == 2
MaxEntries == 2
MaxInFlight == 2
MaxRuns == 2
LeagueLimit == 2

TickMs == 15 * 1000

\* The arguments the wrappers are called with; 50 is the default limit.
PlayersPages == {1}
LivePages == {1}
ClearPages == {1, 2}
Limits == {50}
Payloads == {"v1", "v2"}
TeamsPages == {1}
FixtureDates == {"2026-01-15"}
FixturePages == {1}
FixtureLimits == {100}
LeagueIds == {7}
StandingsFilters == {7}
LeaguesPages == {1}

\* The pages of the basketball page, and the limit its calls leave to default.
BasketballPages == {1, 2}
DefaultLimit == 50
SelectedDates == {0, 1}

\* The pages the leagues page asks for, and the limit it passes.
LeagueLoadPages == {1, 2, 3, 4}
LeaguePageSize == 100

----------------------------------------------------------------------------
(* Values of the interface *)

\* JavaScript null: what the wrappers compare the result of get against.
Null == "null"

\* apiCache.get's result on a miss, as the call sites test it (cached !== null).
Miss == Null

\* No direct get was made.
NotCalled == {}

\* An optional argument: omitted (undefined), or given.
Omitted == << >>

Given(x) == <<x>>

\* The params argument of a cache call: omitted, or a mapping given as its pairs
\* <<name, value>> in insertion order.
NoParams == [given |-> FALSE, pairs |-> << >>]

Params(pairs) == [given |-> TRUE, pairs |-> pairs]

----------------------------------------------------------------------------
(* Endpoint identifiers and parameter mappings of the wrappers *)

PlayersEndpoint == <<"/api/v1/football/players/all-players">>

TeamsEndpoint == <<"/api/v1/football/teams/all-teams">>

BasketballLiveBase == <<"/api/v1/basketball/live">>

LiveEndpoint(page, limit) ==
    BasketballLiveBase \o <<"?page=", ToString(page), "&limit=", ToString(limit)>>

\* const params = { page, limit }: an object keeps its insertion order.
PageLimitParams(page, limit) == Params(<< <<"page", page>>, <<"limit", limit>> >>)

EmptyParams == Params(<< >>)

PlayersTTL == 5 * 60 * 1000

TeamsTTL == 5 * 60 * 1000

LeaguesEndpoint == <<"/api/v1/football/leagues/all-leagues">>

LeaguesTTL == 5 * 60 * 1000

BasketballLeaguesEndpoint == <<"/api/v1/basketball/leagues/all-leagues">>

BasketballLeaguesTTL == 5 * 60 * 1000

BasketballFixturesBase == <<"/api/v1/basketball/fixtures">>

FixturesByDateEndpoint == BasketballFixturesBase \o <<"/date">>

\* const params = { date, page, limit }
DatePageLimitParams(date, page, limit) ==
    Params(<< <<"date", date>>, <<"page", page>>, <<"limit", limit>> >>)

FixturesByDateTTL == 2 * 60 * 1000

\* `/api/v1/basketball/leagues/${id}`
LeagueByIdUrl(id) == <<"/api/v1/basketball/leagues/", ToString(id)>>

LeagueTTL == 5 * 60 * 1000

\* `/api/v1/basketball/standings/${encodeURIComponent(filter)}`
StandingsEndpoint(filter) == <<"/api/v1/basketball/standings/", ToString(filter)>>

StandingsTTL == 5 * 60 * 1000

LiveTTL == 30 * 1000

\* `/api/v1/basketball/fixtures?page=${page}&limit=${limit}`
FixturesEndpoint(page, limit) ==
    BasketballFixturesBase \o <<"?page=", ToString(page), "&limit=", ToString(limit)>>

FixturesTTL == 2 * 60 * 1000

\* `/api/v1/basketball/fixtures/search/${encodeURIComponent(status)}?page=..&limit=..`
SearchEndpoint(status, page, limit) ==
    BasketballFixturesBase
        \o <<"/search/", status, "?page=", ToString(page), "&limit=", ToString(limit)>>

SearchTTL == 60 * 1000

FixtureLeagueEndpoint == <<"/api/v1/football/fixture/league">>

\* const params = { leagueId, date, page, limit }
FixtureLeagueParams(leagueId, date, page, limit) ==
    Params(<< <<"leagueId", leagueId>>, <<"date", date>>,
              <<"page", page>>, <<"limit", limit>> >>)

----------------------------------------------------------------------------
(* Key Encoder *)

\* The parameter names in lexicographic order.
ParamNames == <<"date", "leagueId", "limit", "page">>

Rank(name) == CHOOSE i \in DOMAIN ParamNames : ParamNames[i] = name

\* Mutant: the pairs are left in their insertion order.
SortParams_unsorted(p) == p

\* pair put at its place in sorted, which is in canonical order.
RECURSIVE Insert(_, _)
Insert(pair, sorted) ==
    IF sorted = << >> THEN <<pair>>
    ELSE IF Rank(pair[1]) <= Rank(Head(sorted)[1]) THEN <<pair>> \o sorted
    ELSE <<Head(sorted)>> \o Insert(pair, Tail(sorted))

\* The pairs of p in canonical order: by parameter name, lexicographically.
RECURSIVE SortParams(_)
SortParams(p) ==
    IF p = << >> THEN << >> ELSE Insert(Head(p), SortParams(Tail(p)))

\* Mutant: only the names are written, not the values.
Serialize_namesOnly(p) == [i \in 1..Len(p) |-> p[i][1]]

RECURSIVE Serialize(_)
Serialize(p) ==
    IF p = << >> THEN << >>
    ELSE LET pair == Head(p)
             rest == Tail(p)
         IN  <<pair[1], "=", ToString(pair[2])>>
               \o (IF rest = << >> THEN << >> ELSE <<"&">> \o Serialize(rest))

encode(endpoint, params) ==
    IF ~params.given \/ params.pairs = << >>
    THEN endpoint
    ELSE endpoint \o <<":">> \o Serialize(SortParams(params.pairs))

----------------------------------------------------------------------------
(* Entry Store and Expiry Policy *)

DefaultTTL == 5 * 60 * 1000

\* Mutant: the ttl is stored as given.
EffectiveTTL_asGiven(ttl) == ttl

\* ttl omitted is ttl 0 here: both mean the default.
EffectiveTTL(ttl) == IF ttl = 0 THEN DefaultTTL ELSE ttl

\* Mutant: an entry is still live exactly ttl after it was stored.
IsLive_inclusive(entry, t) == t - entry.storedAt <= entry.ttl

IsLive(entry, t) == t - entry.storedAt < entry.ttl

CacheGet(s, t, endpoint, params) ==
    LET key == encode(endpoint, params)
    IN  IF key \in DOMAIN s /\ IsLive(s[key], t) THEN s[key].value ELSE Miss

\* Mutant: get deletes the dead entry it finds.
CacheAfterGet_deleteDead(s, t, endpoint, params) ==
    LET key == encode(endpoint, params)
    IN  IF key \in DOMAIN s /\ ~IsLive(s[key], t)
        THEN [k \in DOMAIN s \ {key} |-> s[k]]
        ELSE s

\* The store after get(endpoint, params): get deletes and refreshes nothing.
CacheAfterGet(s, t, endpoint, params) == s

\* Mutant: a key that holds an entry keeps it.
CacheSet_keepFirst(s, t, endpoint, value, params, ttl) ==
    LET key == encode(endpoint, params)
        entry == [endpoint |-> endpoint, value |-> value,
                  storedAt |-> t, ttl |-> EffectiveTTL(ttl)]
    IN  IF key \in DOMAIN s THEN s
        ELSE [k \in DOMAIN s \cup {key} |-> IF k = key THEN entry ELSE s[k]]

\* Mutant: a set on a key that holds an entry replaces the value and keeps the
\* entry's storedAt and ttl.
CacheSet_keepStoredAt(s, t, endpoint, value, params, ttl) ==
    LET key == encode(endpoint, params)
        entry == [endpoint |-> endpoint, value |-> value,
                  storedAt |-> t, ttl |-> EffectiveTTL(ttl)]
    IN  [k \in DOMAIN s \cup {key} |->
            IF k # key THEN s[k]
            ELSE IF key \in DOMAIN s THEN [s[key] EXCEPT !.value = value]
            ELSE entry]

CacheSet(s, t, endpoint, value, params, ttl) ==
    LET key == encode(endpoint, params)
        entry == [endpoint |-> endpoint, value |-> value,
                  storedAt |-> t, ttl |-> EffectiveTTL(ttl)]
    IN  [k \in DOMAIN s \cup {key} |-> IF k = key THEN entry ELSE s[k]]

CacheClear(s, endpoint, params) ==
    LET gone == IF params.given
                THEN {encode(endpoint, params)}
                ELSE {k \in DOMAIN s : s[k].endpoint = endpoint}
    IN  [k \in DOMAIN s \ gone |-> s[k]]

CacheClearAll(s) == [k \in {} |-> k]

----------------------------------------------------------------------------
(* History of the calls made on the cache, kept beside the store *)

\* A parameter mapping as a mapping: its pairs without their order.
AsMap(params) == {params.pairs[i] : i \in DOMAIN params.pairs}

\* What a cache call addresses: the endpoint identifier and the mapping.
Target(endpoint, params) == <<endpoint, AsMap(params)>>

RecordSet(h, t, endpoint, value, params, ttl) ==
    LET id == Target(endpoint, params)
        rec == [value |-> value, at |-> t, ttl |-> ttl, params |-> params]
    IN  [i \in DOMAIN h \cup {id} |-> IF i = id THEN rec ELSE h[i]]

RecordClear(h, endpoint, params) ==
    LET gone == IF params.given
                THEN {Target(endpoint, params)}
                ELSE {i \in DOMAIN h : i[1] = endpoint}
    IN  [i \in DOMAIN h \ gone |-> h[i]]

\* The recorded sets among ids that a step at time t drops, live or dead.
Dropped(h, t, ids) ==
    {[target |-> i, live |-> t - h[i].at < h[i].ttl] : i \in ids \cap DOMAIN h}

----------------------------------------------------------------------------
(* The calls of the Public Cache API, as a call site makes them *)

DoSet(endpoint, value, params, ttl) ==
    /\ \/ encode(endpoint, params) \in DOMAIN store
       \/ Cardinality(DOMAIN store) < MaxEntries
    /\ store' = CacheSet(store, now, endpoint, value, params, ttl)
    /\ lastSet' = RecordSet(lastSet, now, endpoint, value, params, EffectiveTTL(ttl))
    /\ dropped' = Dropped(lastSet, now, {Target(endpoint, params)})
    /\ threw' = FALSE
    /\ got' = NotCalled

DoClear(endpoint, params) ==
    /\ store' = CacheClear(store, endpoint, params)
    /\ lastSet' = RecordClear(lastSet, endpoint, params)
    /\ dropped' = Dropped(lastSet, now, DOMAIN lastSet \ DOMAIN lastSet')
    /\ threw' = FALSE
    /\ got' = NotCalled

DoClearAll ==
    /\ store' = CacheClearAll(store)
    /\ lastSet' = [i \in {} |-> i]
    /\ dropped' = Dropped(lastSet, now, DOMAIN lastSet)
    /\ threw' = FALSE
    /\ got' = NotCalled

\* The same mapping as { page, limit }, built in the other order.
LimitPageParams(page, limit) == Params(<< <<"limit", limit>>, <<"page", page>> >>)

\* The endpoints and parameter mappings a call site may pass.
CallEndpoints ==
    {PlayersEndpoint, TeamsEndpoint, BasketballLiveBase, LiveEndpoint(1, 50)}

CallParams ==
    {NoParams, EmptyParams, PageLimitParams(1, 50), PageLimitParams(2, 50),
     LimitPageParams(1, 50)}

\* What the other call sites store: a mapping in the other insertion order, a
\* second page, and an endpoint that is a prefix of a wrapper's.
SetTargets ==
    {<<PlayersEndpoint, LimitPageParams(1, 50)>>,
     <<PlayersEndpoint, PageLimitParams(2, 50)>>,
     <<BasketballLiveBase, NoParams>>}

\* What the other call sites clear.
ClearTargets ==
    SetTargets \cup {<<LiveEndpoint(1, 50), NoParams>>, <<LiveEndpoint(1, 50), EmptyParams>>}

CallTTLs == {TickMs}

ApiCacheSet(endpoint, value, params, ttl) ==
    /\ DoSet(endpoint, value, params, ttl)
    /\ UNCHANGED <<now, pending>>

ApiCacheGet(endpoint, params) ==
    /\ store' = CacheAfterGet(store, now, endpoint, params)
    /\ got' = {[endpoint |-> endpoint, params |-> params,
                result |-> CacheGet(store, now, endpoint, params)]}
    /\ dropped' = {}
    /\ threw' = FALSE
    /\ UNCHANGED <<now, pending, lastSet>>

ApiCacheClear(endpoint, params) ==
    /\ DoClear(endpoint, params)
    /\ UNCHANGED <<now, pending>>

----------------------------------------------------------------------------
(* Network requests in flight *)

\* A call of apiClient.get made by wrapper fn for its arguments args.
RequestOf(fn, args) == [fn |-> fn, args |-> args]

Request(fn, page, limit) == RequestOf(fn, <<page, limit>>)

Requests ==
    {Request("getAllPlayers", page, limit) : page \in PlayersPages, limit \in Limits}
    \cup {Request("getLiveBasketballMatches", page, limit) :
              page \in LivePages, limit \in Limits}
    \cup {Request("getAllTeams", page, limit) : page \in ClearPages, limit \in Limits}
    \cup {Request("getAllLeagues", page, limit) : page \in LeaguesPages, limit \in Limits}
    \cup {RequestOf("getBasketballFixturesByDate", <<date, page, limit>>) :
              date \in FixtureDates, page \in FixturePages, limit \in FixtureLimits}
    \cup {RequestOf("getBasketballLeagueById", <<id>>) : id \in LeagueIds}
    \cup {RequestOf("getBasketballStandings", <<filter>>) : filter \in StandingsFilters}
    \cup {Request(fn, page, DefaultLimit) :
              fn \in {"getLiveBasketballMatches", "getBasketballFixtures"},
              page \in BasketballPages}
    \cup {RequestOf("searchBasketballFixturesByStatus", <<"finished", page, DefaultLimit>>) :
              page \in BasketballPages}
    \cup {RequestOf("getFixturesByLeague", <<leagueId, date, page, limit>>) :
              leagueId \in LeagueIds, date \in FixtureDates,
              page \in FixturePages, limit \in FixtureLimits}
    \cup {Request("getAllBasketballLeagues", page, LeaguePageSize) :
              page \in LeagueLoadPages}

InFlight == LET Sum[S \in SUBSET Requests] ==
                    IF S = {} THEN 0
                    ELSE LET r == CHOOSE r \in S : TRUE
                         IN  pending[r] + Sum[S \ {r}]
            IN  Sum[Requests]

Issue(req) ==
    /\ InFlight < MaxInFlight
    /\ pending' = [pending EXCEPT ![req] = @ + 1]

Settle(req) ==
    /\ pending[req] > 0
    /\ pending' = [pending EXCEPT ![req] = @ - 1]

----------------------------------------------------------------------------
(* Endpoint wrappers *)

\* Mutant: the lookup leaves limit out of the parameters.
getAllPlayers_cached_pageOnly(page, limit) ==
    CacheGet(store, now, PlayersEndpoint, Params(<< <<"page", page>> >>))

getAllPlayers_cached(page, limit) ==
    CacheGet(store, now, PlayersEndpoint, PageLimitParams(page, limit))

\* Up to the await: a hit returns the cached value, a miss issues the request.
getAllPlayers(page, limit) ==
    IF getAllPlayers_cached(page, limit) # Null
    THEN UNCHANGED cacheVars
    ELSE /\ Issue(Request("getAllPlayers", page, limit))
         /\ dropped' = {}
         /\ threw' = FALSE
         /\ got' = NotCalled
         /\ UNCHANGED <<store, now, lastSet>>

\* After the await: the response is stored and returned.
getAllPlayersResponse(page, limit, data) ==
    /\ Settle(Request("getAllPlayers", page, limit))
    /\ DoSet(PlayersEndpoint, data, PageLimitParams(page, limit), PlayersTTL)
    /\ UNCHANGED now

\* Mutant: the lookup passes the page and limit as parameters too.
getLiveBasketballMatches_cached_withParams(page, limit) ==
    CacheGet(store, now, LiveEndpoint(page, limit), PageLimitParams(page, limit))

getLiveBasketballMatches_cached(page, limit) ==
    CacheGet(store, now, LiveEndpoint(page, limit), NoParams)

\* Mutant: a call that misses while the same request is in flight waits for it.
getLiveBasketballMatches_deduplicated(page, limit) ==
    IF getLiveBasketballMatches_cached(page, limit) # Null
           \/ pending[Request("getLiveBasketballMatches", page, limit)] > 0
    THEN UNCHANGED cacheVars
    ELSE /\ Issue(Request("getLiveBasketballMatches", page, limit))
         /\ dropped' = {}
         /\ threw' = FALSE
         /\ got' = NotCalled
         /\ UNCHANGED <<store, now, lastSet>>

getLiveBasketballMatches(page, limit) ==
    IF getLiveBasketballMatches_cached(page, limit) # Null
    THEN UNCHANGED cacheVars
    ELSE /\ Issue(Request("getLiveBasketballMatches", page, limit))
         /\ dropped' = {}
         /\ threw' = FALSE
         /\ got' = NotCalled
         /\ UNCHANGED <<store, now, lastSet>>

getLiveBasketballMatchesResponse(page, limit, data) ==
    /\ Settle(Request("getLiveBasketballMatches", page, limit))
    /\ DoSet(LiveEndpoint(page, limit), data, EmptyParams, LiveTTL)
    /\ UNCHANGED now

getBasketballFixtures_cached(page, limit) ==
    CacheGet(store, now, FixturesEndpoint(page, limit), NoParams)

getBasketballFixtures(page, limit) ==
    IF getBasketballFixtures_cached(page, limit) # Null
    THEN UNCHANGED cacheVars
    ELSE /\ Issue(Request("getBasketballFixtures", page, limit))
         /\ dropped' = {}
         /\ threw' = FALSE
         /\ got' = NotCalled
         /\ UNCHANGED <<store, now, lastSet>>

getBasketballFixturesResponse(page, limit, data) ==
    /\ Settle(Request("getBasketballFixtures", page, limit))
    /\ DoSet(FixturesEndpoint(page, limit), data, EmptyParams, FixturesTTL)
    /\ UNCHANGED now

searchBasketballFixturesByStatus_cached(status, page, limit) ==
    CacheGet(store, now, SearchEndpoint(status, page, limit), NoParams)

searchBasketballFixturesByStatus(status, page, limit) ==
    IF searchBasketballFixturesByStatus_cached(status, page, limit) # Null
    THEN UNCHANGED cacheVars
    ELSE /\ Issue(RequestOf("searchBasketballFixturesByStatus", <<status, page, limit>>))
         /\ dropped' = {}
         /\ threw' = FALSE
         /\ got' = NotCalled
         /\ UNCHANGED <<store, now, lastSet>>

searchBasketballFixturesByStatusResponse(status, page, limit, data) ==
    /\ Settle(RequestOf("searchBasketballFixturesByStatus", <<status, page, limit>>))
    /\ DoSet(SearchEndpoint(status, page, limit), data, EmptyParams, SearchTTL)
    /\ UNCHANGED now

getAllBasketballLeagues_cached(page, limit) ==
    CacheGet(store, now, BasketballLeaguesEndpoint, PageLimitParams(page, limit))

getAllBasketballLeagues(page, limit) ==
    IF getAllBasketballLeagues_cached(page, limit) # Null
    THEN UNCHANGED cacheVars
    ELSE /\ Issue(Request("getAllBasketballLeagues", page, limit))
         /\ dropped' = {}
         /\ threw' = FALSE
         /\ got' = NotCalled
         /\ UNCHANGED <<store, now, lastSet>>

getAllBasketballLeaguesResponse(page, limit, data) ==
    /\ Settle(Request("getAllBasketballLeagues", page, limit))
    /\ DoSet(BasketballLeaguesEndpoint, data, PageLimitParams(page, limit),
             BasketballLeaguesTTL)
    /\ UNCHANGED now

getAllTeams_cached(page, limit) ==
    CacheGet(store, now, TeamsEndpoint, PageLimitParams(page, limit))

getAllTeams(page, limit) ==
    IF getAllTeams_cached(page, limit) # Null
    THEN UNCHANGED cacheVars
    ELSE /\ Issue(Request("getAllTeams", page, limit))
         /\ dropped' = {}
         /\ threw' = FALSE
         /\ got' = NotCalled
         /\ UNCHANGED <<store, now, lastSet>>

\* Mutant: the response of a request whose key was cleared while it was in
\* flight is returned to the caller without being stored.
getAllTeamsResponse_dropsInvalidated(page, limit, data) ==
    /\ Settle(Request("getAllTeams", page, limit))
    /\ IF \E x \in invalidated : x.req = Request("getAllTeams", page, limit) /\ ~x.stored
       THEN /\ dropped' = {}
            /\ threw' = FALSE
            /\ got' = NotCalled
            /\ UNCHANGED <<store, lastSet>>
       ELSE DoSet(TeamsEndpoint, data, PageLimitParams(page, limit), TeamsTTL)
    /\ UNCHANGED now

getAllTeamsResponse(page, limit, data) ==
    /\ Settle(Request("getAllTeams", page, limit))
    /\ DoSet(TeamsEndpoint, data, PageLimitParams(page, limit), TeamsTTL)
    /\ UNCHANGED now

getAllLeagues_cached(page, limit) ==
    CacheGet(store, now, LeaguesEndpoint, PageLimitParams(page, limit))

getAllLeagues(page, limit) ==
    IF getAllLeagues_cached(page, limit) # Null
    THEN UNCHANGED cacheVars
    ELSE /\ Issue(Request("getAllLeagues", page, limit))
         /\ dropped' = {}
         /\ threw' = FALSE
         /\ got' = NotCalled
         /\ UNCHANGED <<store, now, lastSet>>

getAllLeaguesResponse(page, limit, data) ==
    /\ Settle(Request("getAllLeagues", page, limit))
    /\ DoSet(LeaguesEndpoint, data, PageLimitParams(page, limit), LeaguesTTL)
    /\ UNCHANGED now

getBasketballFixturesByDate_cached(date, page, limit) ==
    CacheGet(store, now, FixturesByDateEndpoint, DatePageLimitParams(date, page, limit))

getBasketballFixturesByDate(date, page, limit) ==
    IF getBasketballFixturesByDate_cached(date, page, limit) # Null
    THEN UNCHANGED cacheVars
    ELSE /\ Issue(RequestOf("getBasketballFixturesByDate", <<date, page, limit>>))
         /\ dropped' = {}
         /\ threw' = FALSE
         /\ got' = NotCalled
         /\ UNCHANGED <<store, now, lastSet>>

getBasketballFixturesByDateResponse(date, page, limit, data) ==
    /\ Settle(RequestOf("getBasketballFixturesByDate", <<date, page, limit>>))
    /\ DoSet(FixturesByDateEndpoint, data, DatePageLimitParams(date, page, limit),
             FixturesByDateTTL)
    /\ UNCHANGED now

getBasketballLeagueById_cached(id) == CacheGet(store, now, LeagueByIdUrl(id), NoParams)

getBasketballLeagueById(id) ==
    IF getBasketballLeagueById_cached(id) # Null
    THEN UNCHANGED cacheVars
    ELSE /\ Issue(RequestOf("getBasketballLeagueById", <<id>>))
         /\ dropped' = {}
         /\ threw' = FALSE
         /\ got' = NotCalled
         /\ UNCHANGED <<store, now, lastSet>>

\* The try block after the await.
getBasketballLeagueByIdResponse(id, data) ==
    /\ Settle(RequestOf("getBasketballLeagueById", <<id>>))
    /\ DoSet(LeagueByIdUrl(id), data, EmptyParams, LeagueTTL)
    /\ UNCHANGED now

getBasketballStandings_cached(filter) ==
    CacheGet(store, now, StandingsEndpoint(filter), NoParams)

getBasketballStandings(filter) ==
    IF getBasketballStandings_cached(filter) # Null
    THEN UNCHANGED cacheVars
    ELSE /\ Issue(RequestOf("getBasketballStandings", <<filter>>))
         /\ dropped' = {}
         /\ threw' = FALSE
         /\ got' = NotCalled
         /\ UNCHANGED <<store, now, lastSet>>

getBasketballStandingsResponse(filter, data) ==
    /\ Settle(RequestOf("getBasketballStandings", <<filter>>))
    /\ DoSet(StandingsEndpoint(filter), data, EmptyParams, StandingsTTL)
    /\ UNCHANGED now

\* Mutant: the cache is looked up first, as in the other wrappers.
getFixturesByLeague_cacheFirst(leagueId, date, page, limit) ==
    IF CacheGet(store, now, FixtureLeagueEndpoint,
                FixtureLeagueParams(leagueId, date, page, limit)) # Null
    THEN UNCHANGED cacheVars
    ELSE /\ Issue(RequestOf("getFixturesByLeague", <<leagueId, date, page, limit>>))
         /\ dropped' = {}
         /\ threw' = FALSE
         /\ got' = NotCalled
         /\ UNCHANGED <<store, now, lastSet>>

\* Up to the await: the request is issued, whatever the cache holds.
getFixturesByLeague(leagueId, date, page, limit) ==
    /\ Issue(RequestOf("getFixturesByLeague", <<leagueId, date, page, limit>>))
    /\ dropped' = {}
    /\ threw' = FALSE
    /\ got' = NotCalled
    /\ UNCHANGED <<store, now, lastSet>>

\* After the await: the response is returned and not stored.
getFixturesByLeagueResponse(leagueId, date, page, limit, data) ==
    /\ Settle(RequestOf("getFixturesByLeague", <<leagueId, date, page, limit>>))
    /\ dropped' = {}
    /\ threw' = FALSE
    /\ got' = NotCalled
    /\ UNCHANGED <<store, now, lastSet>>

\* Mutant: the catch block of getBasketballLeagueById caches null for the league.
RequestFailed_cachesNull(req) ==
    /\ Settle(req)
    /\ IF req.fn = "getBasketballLeagueById"
       THEN DoSet(LeagueByIdUrl(req.args[1]), Null, EmptyParams, LeagueTTL)
       ELSE dropped' = {} /\ threw' = TRUE /\ got' = NotCalled /\ UNCHANGED <<store, lastSet>>
    /\ UNCHANGED now

\* The awaited request fails: the wrapper throws and stores nothing.
RequestFailed(req) ==
    /\ Settle(req)
    /\ dropped' = {}
    /\ threw' = TRUE
    /\ got' = NotCalled
    /\ UNCHANGED <<store, now, lastSet>>

\* Mutant: every variation is cleared, also when page and limit are given.
clearPlayersCache_allVariations(page, limit) ==
    /\ DoClear(PlayersEndpoint, NoParams)
    /\ UNCHANGED <<now, pending>>

\* Mutant: with page or limit left out, only the entry without parameters is
\* cleared.
clearPlayersCache_emptyParams(page, limit) ==
    /\ IF page # Omitted /\ limit # Omitted
       THEN DoClear(PlayersEndpoint, PageLimitParams(page[1], limit[1]))
       ELSE DoClear(PlayersEndpoint, EmptyParams)
    /\ UNCHANGED <<now, pending>>

clearPlayersCache(page, limit) ==
    /\ IF page # Omitted /\ limit # Omitted
       THEN DoClear(PlayersEndpoint, PageLimitParams(page[1], limit[1]))
       ELSE DoClear(PlayersEndpoint, NoParams)
    /\ UNCHANGED <<now, pending>>

\* Mutant: every variation is cleared, also when page and limit are given.
clearTeamsCache_allVariations(page, limit) ==
    /\ DoClear(TeamsEndpoint, NoParams)
    /\ UNCHANGED <<now, pending>>

\* Mutant: the endpoint constant is the players' one.
clearTeamsCache_playersEndpoint(page, limit) ==
    /\ IF page # Omitted /\ limit # Omitted
       THEN DoClear(PlayersEndpoint, PageLimitParams(page[1], limit[1]))
       ELSE DoClear(PlayersEndpoint, NoParams)
    /\ UNCHANGED <<now, pending>>

clearTeamsCache(page, limit) ==
    /\ IF page # Omitted /\ limit # Omitted
       THEN DoClear(TeamsEndpoint, PageLimitParams(page[1], limit[1]))
       ELSE DoClear(TeamsEndpoint, NoParams)
    /\ UNCHANGED <<now, pending>>

\* Mutant: clear is called in place of clearAll.
clearBasketballLiveCache ==
    /\ DoClear(BasketballLiveBase, NoParams)
    /\ UNCHANGED <<now, pending>>

clearBasketballFixturesCache ==
    /\ DoClear(BasketballFixturesBase, NoParams)
    /\ UNCHANGED <<now, pending>>

\* clearBasketballLiveCache(); clearBasketballFixturesCache(); in one step.
clearAllBasketballCache ==
    /\ store' = CacheClear(CacheClear(store, BasketballLiveBase, NoParams),
                           BasketballFixturesBase, NoParams)
    /\ lastSet' = RecordClear(RecordClear(lastSet, BasketballLiveBase, NoParams),
                              BasketballFixturesBase, NoParams)
    /\ dropped' = Dropped(lastSet, now, DOMAIN lastSet \ DOMAIN lastSet')
    /\ threw' = FALSE
    /\ got' = NotCalled
    /\ UNCHANGED <<now, pending>>

clearAllCache_clearPlayers ==
    /\ DoClear(PlayersEndpoint, NoParams)
    /\ UNCHANGED <<now, pending>>

clearAllCache ==
    /\ DoClearAll
    /\ UNCHANGED <<now, pending>>

----------------------------------------------------------------------------
(* The clock *)

Tick ==
    /\ now + TickMs <= MaxTicks * TickMs
    /\ now' = now + TickMs
    /\ dropped' = {}
    /\ threw' = FALSE
    /\ got' = NotCalled
    /\ UNCHANGED <<store, pending, lastSet>>

----------------------------------------------------------------------------
(* The backend, as the basketball page sees it *)

Modes == {"live", "fixtures", "results"}

\* How many pages the backend holds of each list.
ServerTotalPages(mode) == IF mode = "live" THEN 2 ELSE 1

\* response.data of a successful request, named by what was asked for.
Body(mode, page) == mode \o ":" \o ToString(page)

\* response.data with success: false.
Unsuccessful == "unsuccessful"

\* No matches: [].
NoItems == ""

\* The items of a page; a page past the last one is empty.
Items(mode, page) ==
    IF page <= ServerTotalPages(mode) THEN Body(mode, page) ELSE NoItems

\* data.success and data.responseObject of a response body.
Parsed(data) ==
    IF \E mode \in Modes, page \in BasketballPages : data = Body(mode, page)
    THEN LET at == CHOOSE mp \in Modes \X BasketballPages : data = Body(mp[1], mp[2])
         IN  [success |-> TRUE,
              items |-> Items(at[1], at[2]),
              totalPages |-> ServerTotalPages(at[1]),
              hasNextPage |-> at[2] < ServerTotalPages(at[1]),
              hasPreviousPage |-> at[2] > 1,
              page |-> at[2]]
    ELSE [success |-> FALSE]

\* What the backend may answer to a request of the page.
ServerAnswers(mode, page) == {Body(mode, page), Unsuccessful}

----------------------------------------------------------------------------
(* BasketballPage *)

RefreshMs == 30000

\* useState's initial values, before the component is mounted.  ran and
\* resetFor are the dependencies the two effects last ran with, sync tells that
\* the render in progress comes from a click, resolved holds the data of the
\* awaits that a cache hit resolved, interval the timers of setInterval,
\* fetched the mode and page of the last call of fetchData, and firstPage that
\* fetchData was called for page 1 of activeMode since activeMode last changed.
BasketballPageInit ==
    [mounted |-> "no",
     activeMode |-> "live",
     matches |-> NoItems,
     loading |-> TRUE,
     selectedDate |-> 0,
     currentPage |-> 1,
     totalPages |-> 1,
     hasNextPage |-> FALSE,
     hasPreviousPage |-> FALSE,
     ran |-> << >>,
     resetFor |-> "",
     sync |-> FALSE,
     resolved |-> << >>,
     interval |-> {},
     fetched |-> << >>,
     firstPage |-> FALSE]

\* [activeMode, currentPage, selectedDate]
Deps(bp) == <<bp.activeMode, bp.currentPage, bp.selectedDate>>

FetchEffectDue(bp) == bp.mounted = "yes" /\ bp.ran # Deps(bp)

ResetEffectDue(bp) == bp.mounted = "yes" /\ bp.resetFor # bp.activeMode

EffectsDue(bp) == FetchEffectDue(bp) \/ ResetEffectDue(bp)

\* Nothing of the page is left to run before the next event is handled.
Settled(bp) == ~EffectsDue(bp) /\ bp.resolved = << >>

\* The renders and effects of a click are running, or the continuations they
\* left: no other task of the event loop starts.
Flushing(bp) ==
    /\ bp.mounted = "yes"
    /\ \/ bp.sync /\ EffectsDue(bp)
       \/ bp.resolved # << >>

\* The state a click handler leaves: its render and effects run at once.
Clicked(bp) == [bp EXCEPT !.sync = EffectsDue(bp)]

\* The wrapper fetchData calls for a mode.
FetchCached(mode, page) ==
    CASE mode = "live" -> getLiveBasketballMatches_cached(page, DefaultLimit)
      [] mode = "fixtures" -> getBasketballFixtures_cached(page, DefaultLimit)
      [] OTHER -> searchBasketballFixturesByStatus_cached("finished", page, DefaultLimit)

FetchCall(mode, page) ==
    CASE mode = "live" -> getLiveBasketballMatches(page, DefaultLimit)
      [] mode = "fixtures" -> getBasketballFixtures(page, DefaultLimit)
      [] OTHER -> searchBasketballFixturesByStatus("finished", page, DefaultLimit)

FetchResponse(mode, page, data) ==
    CASE mode = "live" -> getLiveBasketballMatchesResponse(page, DefaultLimit, data)
      [] mode = "fixtures" -> getBasketballFixturesResponse(page, DefaultLimit, data)
      [] OTHER ->
           searchBasketballFixturesByStatusResponse("finished", page, DefaultLimit, data)

FetchRequest(mode, page) ==
    CASE mode = "live" -> Request("getLiveBasketballMatches", page, DefaultLimit)
      [] mode = "fixtures" -> Request("getBasketballFixtures", page, DefaultLimit)
      [] OTHER -> RequestOf("searchBasketballFixturesByStatus",
                            <<"finished", page, DefaultLimit>>)

\* fetchData up to its await: setLoading(true) and the call of the wrapper; a
\* cache hit resolves the await without a request.
Awaiting(bp, mode, page) ==
    [bp EXCEPT !.loading = TRUE,
               !.fetched = <<mode, page>>,
               !.firstPage = @ \/ (mode = bp.activeMode /\ page = 1),
               !.resolved = IF FetchCached(mode, page) # Null
                            THEN Append(@, FetchCached(mode, page))
                            ELSE @]

\* fetchData after its await, with the data the wrapper returned.
Continued(bp, data) ==
    LET r == Parsed(data)
    IN  IF r.success
        THEN [bp EXCEPT !.matches = r.items,
                        !.totalPages = r.totalPages,
                        !.hasNextPage = r.hasNextPage,
                        !.hasPreviousPage = r.hasPreviousPage,
                        !.currentPage = r.page,
                        !.loading = FALSE]
        ELSE [bp EXCEPT !.matches = NoItems, !.loading = FALSE]

\* fetchData when the wrapper throws: the catch and the finally block.
Caught(bp) == [bp EXCEPT !.matches = NoItems, !.loading = FALSE]

\* Mutant: the cleanup of the fetch effect leaves the interval running.
ClearInterval_keeps(interval) == interval

\* The cleanup of the fetch effect: clearInterval.
ClearInterval(interval) == {}

\* The interval the fetch effect creates: in live mode one timer, whose
\* callback is the fetchData of this render.
SetInterval(mode, page) ==
    IF mode = "live" THEN {[mode |-> mode, page |-> page, due |-> now + RefreshMs]}
    ELSE {}

\* Mutant: the reset effect leaves currentPage as it is.
ResetPage_keeps(bp) == bp.currentPage

\* The reset effect: setCurrentPage(1).
ResetPage(bp) == 1

\* The component is mounted: the first render.
Mount ==
    /\ basketballPage.mounted = "no"
    /\ basketballPage' = [basketballPage EXCEPT !.mounted = "yes", !.sync = TRUE]
    /\ dropped' = {}
    /\ threw' = FALSE
    /\ got' = NotCalled
    /\ UNCHANGED <<store, now, pending, lastSet>>

\* The effects of a render whose dependencies changed, in their order: the
\* fetch effect (cleanup of its last run, fetchData, setInterval), then the
\* reset effect (setCurrentPage(1)).
RunEffects ==
    LET bp == basketballPage
        mode == bp.activeMode
        page == bp.currentPage
        fetched == IF FetchEffectDue(bp)
                   THEN [Awaiting(bp, mode, page) EXCEPT
                            !.interval = ClearInterval(@) \cup SetInterval(mode, page)]
                   ELSE bp
        reset == [fetched EXCEPT !.ran = Deps(bp),
                                 !.currentPage = IF ResetEffectDue(bp)
                                                 THEN ResetPage(bp)
                                                 ELSE @,
                                 !.resetFor = mode]
    IN  /\ EffectsDue(bp)
        /\ bp.sync \/ bp.resolved = << >>
        /\ IF FetchEffectDue(bp)
           THEN FetchCall(mode, page)
           ELSE UNCHANGED cacheVars
        /\ basketballPage' = [reset EXCEPT !.sync = bp.sync /\ EffectsDue(reset)]

\* The continuation of a fetchData whose await a cache hit resolved.
Resolve ==
    LET bp == basketballPage
    IN  /\ bp.mounted = "yes"
        /\ bp.resolved # << >>
        /\ ~(bp.sync /\ EffectsDue(bp))
        /\ basketballPage' =
               [Continued(bp, Head(bp.resolved)) EXCEPT !.resolved = Tail(bp.resolved),
                                                        !.sync = FALSE]
        /\ UNCHANGED cacheVars

\* onClick={() => setActiveMode(mode)}
setActiveMode(mode) ==
    /\ basketballPage.mounted = "yes"
    /\ Settled(basketballPage)
    /\ mode # basketballPage.activeMode
    /\ basketballPage' =
           Clicked([basketballPage EXCEPT !.activeMode = mode, !.firstPage = FALSE])
    /\ UNCHANGED cacheVars

Max(a, b) == IF a >= b THEN a ELSE b

Min(a, b) == IF a <= b THEN a ELSE b

\* The pagination is rendered, and its buttons are enabled.
PaginationShown(bp) ==
    bp.mounted = "yes" /\ Settled(bp) /\ bp.totalPages > 1 /\ ~bp.loading

\* Previous: setCurrentPage((prev) => Math.max(1, prev - 1))
PreviousClick ==
    /\ PaginationShown(basketballPage)
    /\ basketballPage.hasPreviousPage
    /\ basketballPage' = Clicked([basketballPage EXCEPT !.currentPage = Max(1, @ - 1)])
    /\ UNCHANGED cacheVars

\* Next: setCurrentPage((prev) => Math.min(totalPages, prev + 1))
NextClick ==
    /\ PaginationShown(basketballPage)
    /\ basketballPage.hasNextPage
    /\ basketballPage' =
           Clicked([basketballPage EXCEPT
                       !.currentPage = Min(basketballPage.totalPages, @ + 1)])
    /\ UNCHANGED cacheVars

\* The date arrows and the date picker: setSelectedDate.
setSelectedDate(date) ==
    /\ basketballPage.mounted = "yes"
    /\ Settled(basketballPage)
    /\ date # basketballPage.selectedDate
    /\ basketballPage' = Clicked([basketballPage EXCEPT !.selectedDate = date])
    /\ UNCHANGED cacheVars

\* A timer of setInterval(fetchData, 30000) fires: the fetchData of the render
\* that created it runs up to its await.
IntervalFires ==
    \E timer \in basketballPage.interval :
        /\ Settled(basketballPage)
        /\ timer.due = now
        /\ FetchCall(timer.mode, timer.page)
        /\ basketballPage' =
               [Awaiting(basketballPage, timer.mode, timer.page) EXCEPT
                   !.interval = (@ \ {timer})
                                   \cup {[timer EXCEPT !.due = now + RefreshMs]}]

\* The component is unmounted: the cleanup of the fetch effect runs.
Unmount ==
    /\ basketballPage.mounted = "yes"
    /\ Settled(basketballPage)
    /\ basketballPage' = [basketballPage EXCEPT !.mounted = "gone",
                                                !.interval = ClearInterval(@)]
    /\ UNCHANGED cacheVars

\* The request of a fetchData is answered: the wrapper stores the response,
\* and fetchData goes on with it (a component no longer mounted ignores it).
FetchDataResponse(mode, page, data) ==
    /\ ~Flushing(basketballPage)
    /\ FetchResponse(mode, page, data)
    /\ basketballPage' = IF basketballPage.mounted = "yes"
                         THEN Continued(basketballPage, data)
                         ELSE basketballPage

\* The request of a fetchData fails: the wrapper throws.
FetchDataFailed(mode, page) ==
    /\ ~Flushing(basketballPage)
    /\ RequestFailed(FetchRequest(mode, page))
    /\ basketballPage' = IF basketballPage.mounted = "yes"
                         THEN Caught(basketballPage)
                         ELSE basketballPage

\* The clock moves on once the page has nothing left to run and no timer is due.
PageTick ==
    /\ basketballPage.mounted = "yes" => Settled(basketballPage)
    /\ \A timer \in basketballPage.interval : timer.due > now
    /\ Tick
    /\ UNCHANGED basketballPage

----------------------------------------------------------------------------
(* BasketballLeftBar *)

\* The league ids the backend lists, and the pages of the league list.  The
\* list is finite: it has a last page.
ListedLeagues == {1}

LeaguePageNumbers == {1, 2, 3}

LastLeaguePage(page) == \A other \in LeaguePageNumbers : other <= page

\* The items of one response: at most limit leagues (limit is 100 in the
\* source; LeagueLimit stands for it).
ItemLists == UNION {[1..n -> ListedLeagues] : n \in 0..LeagueLimit}

\* A response of all-leagues: its items, and its totalPages when it reports
\* one (numeric).
LeagueAnswers(page) ==
    LET lists == {list \in ItemLists : page \notin LeaguePageNumbers => list = << >>}
    IN  {[items |-> items, numeric |-> TRUE, totalPages |-> total] :
            items \in lists, total \in LeaguePageNumbers}
        \cup {[items |-> items, numeric |-> FALSE, totalPages |-> 0] :
                 items \in {list \in lists :
                               LastLeaguePage(page) => Len(list) < LeagueLimit}}

RunIds == 1..MaxRuns

\* One call of fetchAllPages: where it is suspended (pc), its cancelled flag,
\* its locals page and hasMore.  What it did is recorded beside them: the
\* pages it requested, the totalPages its responses reported, the number of
\* items of the last response, whether a request failed, and whether it
\* called a setter or made a request after it was superseded (late).
NoRun == [pc |-> "idle", cancelled |-> FALSE, page |-> 0, hasMore |-> FALSE,
          requested |-> << >>, reports |-> {}, lastSize |-> 0,
          failed |-> FALSE, late |-> FALSE]

LeftBarInit == [mounted |-> FALSE, fetchRunIdRef |-> 0, loading |-> TRUE,
                leagues |-> << >>, runs |-> [id \in RunIds |-> NoRun]]

\* The test made after every awaited response.
Stale_never(lb, id) == FALSE

Stale(lb, id) == lb.runs[id].cancelled \/ lb.fetchRunIdRef # id

\* What an observer sees: the run was cancelled by the cleanup, or a newer run
\* has started.
Superseded(lb, id) == lb.runs[id].cancelled \/ lb.fetchRunIdRef # id

HasMore_inclusive(page, data) ==
    IF data.numeric THEN page <= data.totalPages ELSE Len(data.items) = LeagueLimit

HasMore(page, data) ==
    IF data.numeric THEN page < data.totalPages ELSE Len(data.items) = LeagueLimit

\* setLeagues(prev => ...) of the loop: the leagues of mapped not yet listed.
RECURSIVE Appended(_, _)
Appended(prev, mapped) ==
    IF mapped = << >> THEN prev
    ELSE Appended(IF \E i \in DOMAIN prev : prev[i] = Head(mapped)
                  THEN prev
                  ELSE Append(prev, Head(mapped)),
                  Tail(mapped))

\* The run asks for the next page.
Requesting(lb, id, page) ==
    [lb EXCEPT !.runs[id].pc = "fetch",
               !.runs[id].page = page,
               !.runs[id].requested = Append(@, page),
               !.runs[id].late = @ \/ Superseded(lb, id)]

\* while (!cancelled && hasMore): the next request, or the end of the run.
While(lb, id) ==
    IF ~lb.runs[id].cancelled /\ lb.runs[id].hasMore
    THEN Requesting(lb, id, lb.runs[id].page + 1)
    ELSE [lb EXCEPT !.runs[id].pc = "done"]

\* The effect runs: a new run of fetchAllPages, up to its first await.
LeftBarMount ==
    /\ ~leftBar.mounted
    /\ leftBar.fetchRunIdRef < MaxRuns
    /\ LET runId == leftBar.fetchRunIdRef + 1
           begun == [leftBar EXCEPT !.mounted = TRUE,
                                    !.fetchRunIdRef = runId,
                                    !.loading = TRUE]
       IN  leftBar' = Requesting(begun, runId, 1)

\* The cleanup of the effect.
LeftBarCleanup ==
    /\ leftBar.mounted
    /\ leftBar' = [leftBar EXCEPT !.mounted = FALSE,
                                  !.runs[leftBar.fetchRunIdRef].cancelled = TRUE]

\* The request of a run is answered and its body parsed.
LeaguesResponse(id, data) ==
    LET run == leftBar.runs[id]
        heard == [leftBar EXCEPT
                     !.runs[id].reports = @ \cup {[numeric |-> data.numeric,
                                                   totalPages |-> data.totalPages]},
                     !.runs[id].lastSize = Len(data.items)]
        acts == [heard EXCEPT !.runs[id].late = @ \/ Superseded(leftBar, id)]
    IN  /\ run.pc = "fetch"
        /\ leftBar' =
             IF Stale(leftBar, id)
             THEN [heard EXCEPT !.runs[id].pc = "done"]
             ELSE IF run.page = 1
             THEN While([acts EXCEPT !.leagues = data.items,
                                     !.loading = FALSE,
                                     !.runs[id].hasMore = HasMore(1, data)],
                        id)
             ELSE [(IF Len(data.items) > 0
                    THEN [acts EXCEPT !.leagues = Appended(@, data.items)]
                    ELSE heard)
                   EXCEPT !.runs[id].hasMore = HasMore(run.page, data),
                          !.runs[id].pc = "timer"]

\* The pause between two pages is over.
LeaguesTimer(id) ==
    /\ leftBar.runs[id].pc = "timer"
    /\ leftBar' = While(leftBar, id)

\* The request of a run fails, or its body does not parse: the catch block.
LeaguesFailed(id) ==
    /\ leftBar.runs[id].pc = "fetch"
    /\ leftBar' = [leftBar EXCEPT
                      !.loading = IF ~leftBar.runs[id].cancelled
                                     /\ leftBar.fetchRunIdRef = id
                                  THEN FALSE ELSE @,
                      !.runs[id].pc = "done",
                      !.runs[id].failed = TRUE]

----------------------------------------------------------------------------
(* BasketballLeague, the leagues page *)

\* The body of an all-leagues response, as the wrapper returns and caches it.
RECURSIVE Listed(_)
Listed(items) ==
    IF items = << >> THEN ""
    ELSE ToString(Head(items)) \o "," \o Listed(Tail(items))

LeagueBody(answer) ==
    "leagues:" \o Listed(answer.items)
        \o (IF answer.numeric THEN "/" \o ToString(answer.totalPages) ELSE "")

LeagueReplies == UNION {LeagueAnswers(page) : page \in LeagueLoadPages}

\* res.responseObject of a body: items and totalPages.
LeagueParsed(data) == CHOOSE answer \in LeagueReplies : LeagueBody(answer) = data

\* items.map(mapLeague).filter(Boolean): the leagues with an id.
Mapped(items) == SelectSeq(items, LAMBDA id : id # 0)

\* The calls of getAllBasketballLeagues the page may be awaiting.
LeagueCallers == {<<"preview", 1>>} \cup {<<"all", page>> : page \in LeagueLoadPages}

LeaguePageInit == [mounted |-> FALSE, activeTab |-> "suggestions",
                   loadingPreview |-> TRUE, previewLeagues |-> << >>,
                   loadingAll |-> FALSE, allLeagues |-> << >>,
                   allPage |-> 1, allHasMore |-> TRUE,
                   awaiting |-> [caller \in LeagueCallers |-> 0]]

\* setAllLeagues(prev => ...): seen is built from prev and never added to.
Merged(prev, mapped) ==
    prev \o SelectSeq(mapped, LAMBDA id : \A i \in DOMAIN prev : prev[i] # id)

\* loadPreview after its await, and its catch block.
Previewed(lp, data) ==
    [lp EXCEPT !.previewLeagues = Mapped(LeagueParsed(data).items),
               !.loadingPreview = FALSE]

PreviewFailed(lp) == [lp EXCEPT !.previewLeagues = << >>, !.loadingPreview = FALSE]

\* loadAll(page) after its await, and its catch block.
LoadedAll(lp, page, data) ==
    LET res == LeagueParsed(data)
        mapped == Mapped(res.items)
    IN  [lp EXCEPT !.allLeagues = Merged(@, mapped),
                   !.allHasMore = IF res.numeric THEN page < res.totalPages
                                  ELSE Len(mapped) > 0,
                   !.allPage = page,
                   !.loadingAll = FALSE]

LoadAllFailed(lp) == [lp EXCEPT !.allHasMore = FALSE, !.loadingAll = FALSE]

\* A call of the wrapper by loadPreview or loadAll: a cache hit resolves the
\* await at once, a miss leaves the caller awaiting its request.
LeagueCall(lp, caller) ==
    LET page == caller[2]
        cached == getAllBasketballLeagues_cached(page, LeaguePageSize)
    IN  /\ getAllBasketballLeagues(page, LeaguePageSize)
        /\ leaguePage' =
             IF cached = Null
             THEN [lp EXCEPT !.awaiting[caller] = @ + 1]
             ELSE IF caller[1] = "preview" THEN Previewed(lp, cached)
             ELSE LoadedAll(lp, page, cached)

\* loadAll(page): setLoadingAll(true), then the wrapper.
loadAll(lp, page) == LeagueCall([lp EXCEPT !.loadingAll = TRUE], <<"all", page>>)

\* First render: the preview effect calls loadPreview; the activeTab effect
\* returns, the tab being "suggestions".
LeagueMount ==
    /\ ~leaguePage.mounted
    /\ LeagueCall([leaguePage EXCEPT !.mounted = TRUE, !.loadingPreview = TRUE],
                  <<"preview", 1>>)

\* setActiveTab(tab), and the activeTab effect of the render that follows.
setActiveTab(tab) ==
    LET lp == [leaguePage EXCEPT !.activeTab = tab]
    IN  /\ leaguePage.mounted
        /\ tab # leaguePage.activeTab
        /\ IF tab = "all" /\ Len(leaguePage.allLeagues) = 0
           THEN loadAll(lp, 1)
           ELSE leaguePage' = lp /\ UNCHANGED cacheVars

\* The Load more button.
LoadMoreClick ==
    /\ leaguePage.mounted
    /\ leaguePage.activeTab = "all"
    /\ ~(leaguePage.loadingAll /\ Len(leaguePage.allLeagues) = 0)
    /\ leaguePage.allHasMore
    /\ ~leaguePage.loadingAll
    /\ leaguePage.allPage + 1 \in LeagueLoadPages
    /\ loadAll(leaguePage, leaguePage.allPage + 1)

\* The request of a call is answered: the wrapper caches the body and the
\* caller goes on with it.
LeagueResponse(caller, data) ==
    LET lp == [leaguePage EXCEPT !.awaiting[caller] = @ - 1]
    IN  /\ leaguePage.awaiting[caller] > 0
        /\ getAllBasketballLeaguesResponse(caller[2], LeaguePageSize, data)
        /\ leaguePage' = IF caller[1] = "preview" THEN Previewed(lp, data)
                         ELSE LoadedAll(lp, caller[2], data)

\* The request of a call fails: the wrapper throws.
LeagueFailed(caller) ==
    LET lp == [leaguePage EXCEPT !.awaiting[caller] = @ - 1]
    IN  /\ leaguePage.awaiting[caller] > 0
        /\ RequestFailed(Request("getAllBasketballLeagues", caller[2], LeaguePageSize))
        /\ leaguePage' = IF caller[1] = "preview" THEN PreviewFailed(lp)
                         ELSE LoadAllFailed(lp)

----------------------------------------------------------------------------
(* The specification *)

Opt(S) == {Omitted} \cup {Given(x) : x \in S}

Init ==
    /\ store = [k \in {} |-> k]
    /\ now = 0
    /\ pending = [r \in Requests |-> 0]
    /\ lastSet = [i \in {} |-> i]
    /\ dropped = {}
    /\ threw = FALSE
    /\ got = NotCalled
    /\ invalidated = {}
    /\ basketballPage = BasketballPageInit
    /\ leftBar = LeftBarInit
    /\ leaguePage = LeaguePageInit

Next ==
    \/ Tick
       /\ UNCHANGED besideCache
    \/ \E tg \in SetTargets, v \in Payloads, ttl \in CallTTLs :
          ApiCacheSet(tg[1], v, tg[2], ttl)
       /\ UNCHANGED besideCache
    \/ \E tg \in ClearTargets : ApiCacheClear(tg[1], tg[2])
       /\ UNCHANGED besideCache
    \/ \E page \in PlayersPages, limit \in Limits : getAllPlayers(page, limit)
       /\ UNCHANGED besideCache
    \/ \E page \in PlayersPages, limit \in Limits, data \in Payloads :
          getAllPlayersResponse(page, limit, data)
       /\ UNCHANGED besideCache
    \/ \E page \in LivePages, limit \in Limits : getLiveBasketballMatches(page, limit)
       /\ UNCHANGED besideCache
    \/ \E page \in LivePages, limit \in Limits, data \in Payloads :
          getLiveBasketballMatchesResponse(page, limit, data)
       /\ UNCHANGED besideCache
    \/ \E req \in Requests : RequestFailed(req)
       /\ UNCHANGED besideCache
    \/ \E page \in Opt(ClearPages), limit \in Opt(Limits) :
          clearPlayersCache(page, limit)
       /\ UNCHANGED besideCache
    \/ \E page \in Opt(ClearPages), limit \in Opt(Limits) :
          clearTeamsCache(page, limit)
       /\ UNCHANGED besideCache
    \/ clearAllCache
       /\ UNCHANGED besideCache

Spec == Init /\ [][Next]_vars

\* What apiClient.get may answer: response.data is a payload, or null.
ResponseData == {"v1", Null}

\* The wrappers of the teams, the fixtures of a date and a league, on their own.
NextFetch ==
    \/ Tick
       /\ UNCHANGED besideCache
    \/ \E page \in TeamsPages, limit \in Limits : getAllTeams(page, limit)
       /\ UNCHANGED besideCache
    \/ \E page \in TeamsPages, limit \in Limits, data \in ResponseData :
          getAllTeamsResponse(page, limit, data)
       /\ UNCHANGED besideCache
    \/ \E date \in FixtureDates, page \in FixturePages, limit \in FixtureLimits :
          getBasketballFixturesByDate(date, page, limit)
       /\ UNCHANGED besideCache
    \/ \E date \in FixtureDates, page \in FixturePages, limit \in FixtureLimits,
          data \in ResponseData :
          getBasketballFixturesByDateResponse(date, page, limit, data)
       /\ UNCHANGED besideCache
    \/ \E id \in LeagueIds : getBasketballLeagueById(id)
       /\ UNCHANGED besideCache
    \/ \E id \in LeagueIds, data \in ResponseData :
          getBasketballLeagueByIdResponse(id, data)
       /\ UNCHANGED besideCache
    \/ \E req \in Requests : RequestFailed(req)
       /\ UNCHANGED besideCache

SpecFetch == Init /\ [][NextFetch]_vars

\* The basketball wrappers of the live matches, the fixtures of a date and the
\* standings, and the basketball cache utilities, on their own.
NextBasketball ==
    \/ Tick
       /\ UNCHANGED besideCache
    \/ \E page \in LivePages, limit \in Limits : getLiveBasketballMatches(page, limit)
       /\ UNCHANGED besideCache
    \/ \E page \in LivePages, limit \in Limits, data \in Payloads :
          getLiveBasketballMatchesResponse(page, limit, data)
       /\ UNCHANGED besideCache
    \/ \E filter \in StandingsFilters : getBasketballStandings(filter)
       /\ UNCHANGED besideCache
    \/ \E filter \in StandingsFilters, data \in Payloads :
          getBasketballStandingsResponse(filter, data)
       /\ UNCHANGED besideCache
    \/ \E date \in FixtureDates, page \in FixturePages, limit \in FixtureLimits :
          getBasketballFixturesByDate(date, page, limit)
       /\ UNCHANGED besideCache
    \/ \E date \in FixtureDates, page \in FixturePages, limit \in FixtureLimits,
          data \in Payloads :
          getBasketballFixturesByDateResponse(date, page, limit, data)
       /\ UNCHANGED besideCache
    \/ \E req \in Requests : RequestFailed(req)
       /\ UNCHANGED besideCache
    \/ clearBasketballLiveCache
       /\ UNCHANGED besideCache
    \/ clearBasketballFixturesCache
       /\ UNCHANGED besideCache
    \/ clearAllBasketballCache
       /\ UNCHANGED besideCache

SpecBasketball == Init /\ [][NextBasketball]_vars

\* The football wrappers of the teams, the players and the leagues, and
\* clearTeamsCache, on their own; the backend answers with one payload.
FootballData == {"v1"}

NextFootball ==
    \/ Tick
       /\ UNCHANGED besideCache
    \/ \E page \in ClearPages, limit \in Limits : getAllTeams(page, limit)
       /\ UNCHANGED besideCache
    \/ \E page \in ClearPages, limit \in Limits, data \in FootballData :
          getAllTeamsResponse(page, limit, data)
       /\ UNCHANGED besideCache
    \/ \E page \in PlayersPages, limit \in Limits : getAllPlayers(page, limit)
       /\ UNCHANGED besideCache
    \/ \E page \in PlayersPages, limit \in Limits, data \in FootballData :
          getAllPlayersResponse(page, limit, data)
       /\ UNCHANGED besideCache
    \/ \E page \in LeaguesPages, limit \in Limits : getAllLeagues(page, limit)
       /\ UNCHANGED besideCache
    \/ \E page \in LeaguesPages, limit \in Limits, data \in FootballData :
          getAllLeaguesResponse(page, limit, data)
       /\ UNCHANGED besideCache
    \/ \E req \in Requests : RequestFailed(req)
       /\ UNCHANGED besideCache
    \/ \E page \in Opt(ClearPages), limit \in Opt(Limits) :
          clearTeamsCache(page, limit)
       /\ UNCHANGED besideCache

SpecFootball == Init /\ [][NextFootball]_vars

\* getAllTeams with the invalidations that may run while its request is in
\* flight.  invalidated holds [req, live, stored |-> FALSE] from the clear that
\* addressed req's key while req was in flight, live telling whether the clear
\* found a live entry there, until req's next response or failure; the step
\* that stores that response leaves the record with stored |-> TRUE, and the
\* step after it forgets it.
InvalidatedBy(page, limit) ==
    {[req |-> Request("getAllTeams", pl[1], pl[2]),
      live |-> getAllTeams_cached(pl[1], pl[2]) # Null,
      stored |-> FALSE] :
        pl \in {x \in ClearPages \X Limits :
                   /\ pending[Request("getAllTeams", x[1], x[2])] > 0
                   /\ \/ page = Omitted
                      \/ limit = Omitted
                      \/ x = <<page[1], limit[1]>>}}

\* The clears recorded for req and not yet answered.
Invalidated(req) == {x \in invalidated : x.req = req /\ ~x.stored}

StillInFlight == {x \in invalidated : ~x.stored /\ pending'[x.req] > 0}

NextInvalidation ==
    \/ Tick
       /\ invalidated' = StillInFlight
       /\ UNCHANGED components
    \/ \E page \in ClearPages, limit \in Limits : getAllTeams(page, limit)
       /\ invalidated' = StillInFlight
       /\ UNCHANGED components
    \/ \E page \in ClearPages, limit \in Limits, data \in FootballData :
          /\ getAllTeamsResponse(page, limit, data)
          /\ LET was == Invalidated(Request("getAllTeams", page, limit))
             IN  invalidated' =
                     (StillInFlight \ was) \cup {[x EXCEPT !.stored = TRUE] : x \in was}
       /\ UNCHANGED components
    \/ \E page \in ClearPages, limit \in Limits :
          /\ RequestFailed(Request("getAllTeams", page, limit))
          /\ invalidated' =
                 StillInFlight \ Invalidated(Request("getAllTeams", page, limit))
       /\ UNCHANGED components
    \/ \E page \in Opt(ClearPages), limit \in Opt(Limits) :
          /\ clearTeamsCache(page, limit)
          /\ invalidated' = StillInFlight \cup InvalidatedBy(page, limit)
       /\ UNCHANGED components
    \/ clearAllCache
       /\ invalidated' = StillInFlight \cup InvalidatedBy(Omitted, Omitted)
       /\ UNCHANGED components

SpecInvalidation == Init /\ [][NextInvalidation]_vars

\* getFixturesByLeague beside call sites that store and clear entries, one of
\* them under the endpoint and parameters getFixturesByLeague is called with.
FixtureTargets ==
    {<<FixtureLeagueEndpoint, FixtureLeagueParams(leagueId, date, page, limit)>> :
        leagueId \in LeagueIds, date \in FixtureDates,
        page \in FixturePages, limit \in FixtureLimits}
    \cup {<<PlayersEndpoint, PageLimitParams(1, 50)>>}

NextFixtures ==
    \/ Tick
       /\ UNCHANGED besideCache
    \/ \E tg \in FixtureTargets, v \in Payloads, ttl \in CallTTLs :
          ApiCacheSet(tg[1], v, tg[2], ttl)
       /\ UNCHANGED besideCache
    \/ \E tg \in FixtureTargets : ApiCacheClear(tg[1], tg[2])
       /\ UNCHANGED besideCache
    \/ \E leagueId \in LeagueIds, date \in FixtureDates,
          page \in FixturePages, limit \in FixtureLimits :
          getFixturesByLeague(leagueId, date, page, limit)
       /\ UNCHANGED besideCache
    \/ \E leagueId \in LeagueIds, date \in FixtureDates,
          page \in FixturePages, limit \in FixtureLimits, data \in Payloads :
          getFixturesByLeagueResponse(leagueId, date, page, limit, data)
       /\ UNCHANGED besideCache
    \/ \E leagueId \in LeagueIds, date \in FixtureDates,
          page \in FixturePages, limit \in FixtureLimits :
          RequestFailed(RequestOf("getFixturesByLeague", <<leagueId, date, page, limit>>))
       /\ UNCHANGED besideCache

SpecFixtures == Init /\ [][NextFixtures]_vars

\* The basketball page, with the wrappers its fetchData calls and the cache,
\* within the 30 seconds before its first auto-refresh.
NextPage ==
    \/ Mount
       /\ UNCHANGED besidePage
    \/ RunEffects
       /\ UNCHANGED besidePage
    \/ Resolve
       /\ UNCHANGED besidePage
    \/ \E mode \in Modes : setActiveMode(mode)
       /\ UNCHANGED besidePage
    \/ PreviousClick
       /\ UNCHANGED besidePage
    \/ NextClick
       /\ UNCHANGED besidePage
    \/ Unmount
       /\ UNCHANGED besidePage
    \/ \E mode \in Modes, page \in BasketballPages :
          \E data \in ServerAnswers(mode, page) : FetchDataResponse(mode, page, data)
       /\ UNCHANGED besidePage
    \/ \E mode \in Modes, page \in BasketballPages : FetchDataFailed(mode, page)
       /\ UNCHANGED besidePage

SpecPage == Init /\ [][NextPage]_vars

\* The basketball page with the clock and its auto-refresh, switched between
\* the live matches and the fixtures; the backend answers successfully or fails.
RefreshModes == {"live", "fixtures"}

NextRefresh ==
    \/ Mount
       /\ UNCHANGED besidePage
    \/ RunEffects
       /\ UNCHANGED besidePage
    \/ Resolve
       /\ UNCHANGED besidePage
    \/ \E mode \in RefreshModes : setActiveMode(mode)
       /\ UNCHANGED besidePage
    \/ PreviousClick
       /\ UNCHANGED besidePage
    \/ NextClick
       /\ UNCHANGED besidePage
    \/ \E date \in SelectedDates : setSelectedDate(date)
       /\ UNCHANGED besidePage
    \/ IntervalFires
       /\ UNCHANGED besidePage
    \/ Unmount
       /\ UNCHANGED besidePage
    \/ \E mode \in RefreshModes, page \in BasketballPages :
          FetchDataResponse(mode, page, Body(mode, page))
       /\ UNCHANGED besidePage
    \/ \E mode \in RefreshModes, page \in BasketballPages : FetchDataFailed(mode, page)
       /\ UNCHANGED besidePage
    \/ PageTick
       /\ UNCHANGED besidePage

SpecRefresh == Init /\ [][NextRefresh]_vars

\* The cache on its own: direct calls on two pages of one endpoint, with ttl
\* omitted (0), one tick and two ticks.
StoreTargets ==
    {<<PlayersEndpoint, PageLimitParams(1, 50)>>,
     <<PlayersEndpoint, PageLimitParams(2, 50)>>}

StoreTTLs == {0, TickMs, 2 * TickMs}

\* The leagues page by itself: tabs, Load more, responses and failures.
besideLeague == <<invalidated, basketballPage, leftBar>>

NextLeague ==
    \/ LeagueMount
       /\ UNCHANGED besideLeague
    \/ \E tab \in {"suggestions", "all"} : setActiveTab(tab)
       /\ UNCHANGED besideLeague
    \/ LoadMoreClick
       /\ UNCHANGED besideLeague
    \/ \E caller \in LeagueCallers :
          \E answer \in LeagueAnswers(caller[2]) : LeagueResponse(caller, LeagueBody(answer))
       /\ UNCHANGED besideLeague
    \/ \E caller \in LeagueCallers : LeagueFailed(caller)
       /\ UNCHANGED besideLeague

SpecLeague == Init /\ [][NextLeague]_vars

\* BasketballLeftBar by itself: it is mounted and unmounted, its requests are
\* answered or fail, its pauses end.
LeftBarProgress ==
    \E id \in RunIds :
        \/ \E data \in LeagueAnswers(leftBar.runs[id].page) : LeaguesResponse(id, data)
        \/ LeaguesTimer(id)
        \/ LeaguesFailed(id)

besideLeftBar == <<invalidated, basketballPage, leaguePage>>

NextLeftBar ==
    \/ LeftBarMount
       /\ UNCHANGED <<cacheVars, besideLeftBar>>
    \/ LeftBarCleanup
       /\ UNCHANGED <<cacheVars, besideLeftBar>>
    \/ \E id \in RunIds :
          \E data \in LeagueAnswers(leftBar.runs[id].page) : LeaguesResponse(id, data)
       /\ UNCHANGED <<cacheVars, besideLeftBar>>
    \/ \E id \in RunIds : LeaguesTimer(id)
       /\ UNCHANGED <<cacheVars, besideLeftBar>>
    \/ \E id \in RunIds : LeaguesFailed(id)
       /\ UNCHANGED <<cacheVars, besideLeftBar>>

\* Every request is answered or fails, and every pause ends.
SpecLeftBar ==
    /\ Init
    /\ [][NextLeftBar]_vars
    /\ WF_vars(LeftBarProgress /\ UNCHANGED <<cacheVars, besideLeftBar>>)

NextStore ==
    \/ Tick
       /\ UNCHANGED besideCache
    \/ \E tg \in StoreTargets, v \in Payloads, ttl \in StoreTTLs :
          ApiCacheSet(tg[1], v, tg[2], ttl)
       /\ UNCHANGED besideCache
    \/ \E tg \in StoreTargets : ApiCacheGet(tg[1], tg[2])
       /\ UNCHANGED besideCache
    \/ \E tg \in StoreTargets : ApiCacheClear(tg[1], tg[2])
       /\ UNCHANGED besideCache

SpecStore == Init /\ [][NextStore]_vars

----------------------------------------------------------------------------
(* What the properties below quantify over *)

\* Every (endpoint, params) a get is tried on.
GetEndpoints == CallEndpoints

GetParams == CallParams

\* The recorded set for id is still within its ttl.
Fresh(id) == now - lastSet[id].at < lastSet[id].ttl

Get(endpoint, params) == CacheGet(store, now, endpoint, params)

GetAfter(endpoint, params) == CacheGet(store', now', endpoint, params)

----------------------------------------------------------------------------
(* C1: after set(e,v,p,ttl) with ttl > 0, every get(e,p) made while fewer
   than ttl milliseconds have elapsed since that set, with no set, clear or
   clearAll on that key in between, returns v; so a wrapper that stored a
   response finds it on its next lookup. *)
C1_SetThenGet ==
    /\ \A id \in DOMAIN lastSet :
          Fresh(id) => Get(id[1], lastSet[id].params) = lastSet[id].value
    /\ \A page \in PlayersPages, limit \in Limits :
          LET id == Target(PlayersEndpoint, PageLimitParams(page, limit))
          IN  (id \in DOMAIN lastSet /\ Fresh(id))
                 => getAllPlayers_cached(page, limit) = lastSet[id].value

\* Time has passed since a set, less than its ttl, and get returns its value.
C1_Witness ==
    \E page \in PlayersPages, limit \in Limits :
        LET id == Target(PlayersEndpoint, PageLimitParams(page, limit))
        IN  /\ id \in DOMAIN lastSet
            /\ lastSet[id].at < now
            /\ Fresh(id)
            /\ lastSet[id].value = "v2"
            /\ getAllPlayers_cached(page, limit) = "v2"

(* C2: an entry is live iff now - storedAt < ttl: once ttl or more
   milliseconds have passed since the set (exactly ttl included) get returns
   a miss, although the dead entry is still in the store. *)
C2_ExpiredIsMiss ==
    \A id \in DOMAIN lastSet :
        ~Fresh(id) =>
            /\ Get(id[1], lastSet[id].params) = Miss
            /\ encode(id[1], lastSet[id].params) \in DOMAIN store

\* Exactly ttl after the set: the entry is in the store and get misses.
C2_Witness ==
    \E id \in DOMAIN lastSet :
        /\ now - lastSet[id].at = lastSet[id].ttl
        /\ encode(id[1], lastSet[id].params) \in DOMAIN store
        /\ store[encode(id[1], lastSet[id].params)].value # Miss
        /\ Get(id[1], lastSet[id].params) = Miss

(* C3: the key does not depend on the insertion order of the parameters:
   after set(e,v,p1,ttl), a get(e,p2) within ttl with p2 the same mapping
   as p1 in another order returns v. *)
C3_OrderIndependent ==
    \A id \in DOMAIN lastSet :
        \A p \in GetParams :
            (Fresh(id) /\ AsMap(p) = id[2] /\ p # lastSet[id].params)
                => Get(id[1], p) = lastSet[id].value

\* Stored under {limit, page}, read by getAllPlayers under {page, limit}.
C3_Witness ==
    LET id == Target(PlayersEndpoint, PageLimitParams(1, 50))
    IN  /\ id \in DOMAIN lastSet
        /\ lastSet[id].params = LimitPageParams(1, 50)
        /\ Fresh(id)
        /\ getAllPlayers_cached(1, 50) = lastSet[id].value

(* C4: keys do not collide: a get(e,p) is a hit only after a set for the
   same endpoint e and the same mapping p, whose value it returns; a set for
   another mapping or another endpoint never makes it a hit. *)
C4_CollisionFree ==
    \A e \in GetEndpoints, p \in GetParams :
        Get(e, p) # Miss =>
            /\ Target(e, p) \in DOMAIN lastSet
            /\ Get(e, p) = lastSet[Target(e, p)].value

\* Two pages of one endpoint hold different values; a third page, and the
\* endpoint without parameters, miss.
C4_Witness ==
    /\ Get(PlayersEndpoint, PageLimitParams(1, 50)) = "v1"
    /\ Get(PlayersEndpoint, PageLimitParams(2, 50)) = "v2"
    /\ Get(PlayersEndpoint, NoParams) = Miss
    /\ Get(TeamsEndpoint, PageLimitParams(1, 50)) = Miss

(* C5: omitted params and the empty mapping address the same entry:
   getLiveBasketballMatches, which reads with get(endpoint) and writes with
   set(endpoint, data, {}, ttl), finds the stored data on its next lookup
   within ttl. *)
C5_EmptyIsOmitted ==
    /\ \A id \in DOMAIN lastSet :
          (Fresh(id) /\ id[2] = {}) =>
              /\ Get(id[1], NoParams) = lastSet[id].value
              /\ Get(id[1], EmptyParams) = lastSet[id].value
    /\ \A page \in LivePages, limit \in Limits :
          LET id == Target(LiveEndpoint(page, limit), EmptyParams)
          IN  (id \in DOMAIN lastSet /\ Fresh(id))
                 => getLiveBasketballMatches_cached(page, limit) = lastSet[id].value

\* The wrapper stored under {} and, later, its lookup without params hits.
C5_Witness ==
    \E page \in LivePages, limit \in Limits :
        LET id == Target(LiveEndpoint(page, limit), EmptyParams)
        IN  /\ id \in DOMAIN lastSet
            /\ lastSet[id].params = EmptyParams
            /\ lastSet[id].at < now
            /\ getLiveBasketballMatches_cached(page, limit) = "v1"

(* C6: a set on a key that holds an entry replaces it: the store keeps one
   entry per key, holding the value, time and ttl of the latest set, and get
   returns the new value, not the one it replaced. *)
C6_Overwrite ==
    /\ Cardinality(DOMAIN store) = Cardinality(DOMAIN lastSet)
    /\ \A id \in DOMAIN lastSet :
          LET key == encode(id[1], lastSet[id].params)
          IN  /\ key \in DOMAIN store
              /\ store[key].value = lastSet[id].value
              /\ store[key].storedAt = lastSet[id].at
              /\ store[key].ttl = lastSet[id].ttl
    /\ \A d \in dropped :
          d.target \in DOMAIN lastSet =>
              Get(d.target[1], lastSet[d.target].params) = lastSet[d.target].value

\* A set has just replaced a live entry, and get returns the new value.
C6_Witness ==
    \E d \in dropped :
        /\ d.target \in DOMAIN lastSet
        /\ d.live
        /\ lastSet[d.target].at = now
        /\ lastSet[d.target].value = "v2"
        /\ Get(d.target[1], lastSet[d.target].params) = "v2"

(* C7: clear(e,p) with params given deletes the entry of exactly (e,p):
   get(e,p) is then a miss, and every other entry, those of (e,p') with
   p' # p included, is left as it was and get returns what it returned. *)
OnlyCleared(e, p) ==
    /\ GetAfter(e, p) = Miss
    /\ \A e2 \in GetEndpoints, p2 \in GetParams :
          Target(e2, p2) # Target(e, p) => GetAfter(e2, p2) = Get(e2, p2)
    /\ \A id \in DOMAIN lastSet \ {Target(e, p)} :
          LET key == encode(id[1], lastSet[id].params)
          IN  key \in DOMAIN store' /\ store'[key] = store[key]

C7_ClearExactOnly ==
    [][ /\ \A tg \in ClearTargets :
              (tg[2].given /\ ApiCacheClear(tg[1], tg[2])) => OnlyCleared(tg[1], tg[2])
        /\ \A page \in ClearPages, limit \in Limits :
              clearPlayersCache(Given(page), Given(limit))
                  => OnlyCleared(PlayersEndpoint, PageLimitParams(page, limit))
      ]_vars

\* Page 1 of the players has just been cleared, live; page 2 is still returned.
C7_Witness ==
    /\ dropped = {[target |-> Target(PlayersEndpoint, PageLimitParams(1, 50)),
                   live |-> TRUE]}
    /\ Target(PlayersEndpoint, PageLimitParams(1, 50)) \notin DOMAIN lastSet
    /\ Get(PlayersEndpoint, PageLimitParams(1, 50)) = Miss
    /\ Get(PlayersEndpoint, PageLimitParams(2, 50)) = "v2"

(* C8: clear(e) with params omitted deletes every entry stored under the
   endpoint identifier e, whatever its parameters: get(e,p) is a miss for
   every p, and stays one until a new set for (e,p). *)
AllCleared(e) ==
    /\ \A p \in GetParams : GetAfter(e, p) = Miss
    /\ \A k \in DOMAIN store' : store'[k].endpoint # e

C8_ClearEndpoint ==
    /\ [][ /\ \A tg \in ClearTargets :
                  (~tg[2].given /\ ApiCacheClear(tg[1], tg[2])) => AllCleared(tg[1])
            /\ \A page \in Opt(ClearPages), limit \in Opt(Limits) :
                  ((page = Omitted \/ limit = Omitted) /\ clearPlayersCache(page, limit))
                      => AllCleared(PlayersEndpoint)
          ]_vars
    /\ [](\A e \in GetEndpoints, p \in GetParams :
              Target(e, p) \notin DOMAIN lastSet => Get(e, p) = Miss)

\* Two pages of the players have just been cleared together; none is left.
C8_Witness ==
    /\ {d.target : d \in dropped} =
           {Target(PlayersEndpoint, PageLimitParams(1, 50)),
            Target(PlayersEndpoint, PageLimitParams(2, 50))}
    /\ \A d \in dropped : d.live
    /\ \A p \in GetParams : Get(PlayersEndpoint, p) = Miss
    /\ \A k \in DOMAIN store : store[k].endpoint # PlayersEndpoint

(* C9: a set or a clear on endpoint e1, with or without params, changes the
   result of no get on another endpoint e2, also when e1 is a prefix of e2. *)
OnEndpoint(e1) ==
    \/ \E tg \in SetTargets, v \in Payloads, ttl \in CallTTLs :
          tg[1] = e1 /\ ApiCacheSet(tg[1], v, tg[2], ttl)
    \/ \E tg \in ClearTargets : tg[1] = e1 /\ ApiCacheClear(tg[1], tg[2])
    \/ /\ e1 = PlayersEndpoint
       /\ \/ \E page \in PlayersPages, limit \in Limits, data \in Payloads :
                getAllPlayersResponse(page, limit, data)
          \/ \E page \in Opt(ClearPages), limit \in Opt(Limits) :
                clearPlayersCache(page, limit)
    \/ /\ e1 = TeamsEndpoint
       /\ \E page \in Opt(ClearPages), limit \in Opt(Limits) :
             clearTeamsCache(page, limit)
    \/ \E page \in LivePages, limit \in Limits, data \in Payloads :
          e1 = LiveEndpoint(page, limit)
             /\ getLiveBasketballMatchesResponse(page, limit, data)

C10_ClearAll ==
    /\ [][ clearAllCache =>
              /\ DOMAIN store' = {}
              /\ \A e \in GetEndpoints, p \in GetParams : GetAfter(e, p) = Miss
          ]_vars
    /\ [](DOMAIN lastSet = {} =>
              \A e \in GetEndpoints, p \in GetParams : Get(e, p) = Miss)

\* A live and a dead entry have just been cleared together; the store is empty.
C10_Witness ==
    /\ DOMAIN store = {}
    /\ \E d1, d2 \in dropped :
          /\ d1.live /\ ~d2.live
          /\ d1.target[1] # d2.target[1]
    /\ \A e \in GetEndpoints, p \in GetParams : Get(e, p) = Miss

----------------------------------------------------------------------------
(* The wrappers and a live entry *)

\* The store holds a live entry for (endpoint, params).
HasLive(endpoint, params) ==
    LET key == encode(endpoint, params)
    IN  key \in DOMAIN store /\ IsLive(store[key], now)

\* The latest set for (endpoint, params) stored null and is within its ttl.
NullCached(endpoint, params) ==
    LET id == Target(endpoint, params)
    IN  id \in DOMAIN lastSet /\ Fresh(id) /\ lastSet[id].value = Null

(* C11: a miss is distinguishable from a cached null payload: after
   set(e,null,p,ttl) a wrapper called within ttl treats its lookup as a hit
   and issues no network request. *)
C11_NullPayloadIsHit ==
    [][ /\ \A page \in TeamsPages, limit \in Limits :
              (NullCached(TeamsEndpoint, PageLimitParams(page, limit))
                  /\ getAllTeams(page, limit)) => pending' = pending
        /\ \A date \in FixtureDates, page \in FixturePages, limit \in FixtureLimits :
              (NullCached(FixturesByDateEndpoint, DatePageLimitParams(date, page, limit))
                  /\ getBasketballFixturesByDate(date, page, limit)) => pending' = pending
        /\ \A id \in LeagueIds :
              (NullCached(LeagueByIdUrl(id), NoParams) /\ getBasketballLeagueById(id))
                  => pending' = pending
      ]_vars

(* C12: a wrapper that finds a live entry for its (endpoint, params) issues
   no network request and no set; on a miss it issues exactly one request,
   and then sets the response under the key it looked up. *)
HitOrOneRequest(endpoint, params, req) ==
    IF HasLive(endpoint, params)
    THEN pending' = pending /\ store' = store
    ELSE pending' = [pending EXCEPT ![req] = @ + 1] /\ store' = store

StoredUnderLookupKey(endpoint, params, data) ==
    LET key == encode(endpoint, params)
    IN  /\ key \in DOMAIN store'
        /\ store'[key].value = data
        /\ DOMAIN store' = DOMAIN store \cup {key}

C12_HitOrMiss ==
    [][ /\ \A page \in TeamsPages, limit \in Limits :
              /\ getAllTeams(page, limit) =>
                     HitOrOneRequest(TeamsEndpoint, PageLimitParams(page, limit),
                                     Request("getAllTeams", page, limit))
              /\ \A data \in ResponseData :
                     getAllTeamsResponse(page, limit, data) =>
                         StoredUnderLookupKey(TeamsEndpoint,
                                              PageLimitParams(page, limit), data)
        /\ \A date \in FixtureDates, page \in FixturePages, limit \in FixtureLimits :
              /\ getBasketballFixturesByDate(date, page, limit) =>
                     HitOrOneRequest(FixturesByDateEndpoint,
                                     DatePageLimitParams(date, page, limit),
                                     RequestOf("getBasketballFixturesByDate",
                                               <<date, page, limit>>))
              /\ \A data \in ResponseData :
                     getBasketballFixturesByDateResponse(date, page, limit, data) =>
                         StoredUnderLookupKey(FixturesByDateEndpoint,
                                              DatePageLimitParams(date, page, limit),
                                              data)
        /\ \A id \in LeagueIds :
              /\ getBasketballLeagueById(id) =>
                     HitOrOneRequest(LeagueByIdUrl(id), NoParams,
                                     RequestOf("getBasketballLeagueById", <<id>>))
              /\ \A data \in ResponseData :
                     getBasketballLeagueByIdResponse(id, data) =>
                         StoredUnderLookupKey(LeagueByIdUrl(id), NoParams, data)
      ]_vars

(* C13: when the request issued after a miss fails, the wrapper throws and
   the store is exactly as it was before: no entry is created or changed, so
   every lookup answers as before and the next call for the key is a miss
   again. *)
C13_FailureLeavesStore ==
    [][ \A req \in Requests :
            RequestFailed(req) =>
                /\ store' = store
                /\ threw'
                /\ pending'[req] = pending[req] - 1
                /\ \A page \in TeamsPages, limit \in Limits :
                      getAllTeams_cached(page, limit)' = getAllTeams_cached(page, limit)
                /\ \A id \in LeagueIds :
                      getBasketballLeagueById_cached(id)' = getBasketballLeagueById_cached(id)
                /\ \A date \in FixtureDates, page \in FixturePages,
                      limit \in FixtureLimits :
                      getBasketballFixturesByDate_cached(date, page, limit)'
                          = getBasketballFixturesByDate_cached(date, page, limit)
      ]_vars

\* A request has just failed with none left in flight: the store holds the one
\* entry it held, and the league, never stored, is a miss.
C13_Witness ==
    /\ threw
    /\ InFlight = 0
    /\ Cardinality(DOMAIN store) = 1
    /\ \A id \in LeagueIds :
          /\ encode(LeagueByIdUrl(id), NoParams) \notin DOMAIN store
          /\ getBasketballLeagueById_cached(id) = Null

(* C14: concurrent misses are not deduplicated: a call of
   getLiveBasketballMatches that misses issues a request also while a request
   for the same key is in flight; every response is set, and get then returns
   the value of the set that ran last, whichever request was issued first. *)
C14_NoDeduplication ==
    /\ [](\A page \in LivePages, limit \in Limits :
             (getLiveBasketballMatches_cached(page, limit) = Null
                 /\ InFlight < MaxInFlight)
                 => ENABLED <<getLiveBasketballMatches(page, limit)
                                /\ UNCHANGED besideCache>>_vars)
    /\ [][ \A page \in LivePages, limit \in Limits :
              LET req == Request("getLiveBasketballMatches", page, limit)
              IN  /\ getLiveBasketballMatches(page, limit) =>
                         pending' = [pending EXCEPT ![req] = @ + 1]
                  /\ \A data \in Payloads :
                         getLiveBasketballMatchesResponse(page, limit, data) =>
                             /\ getLiveBasketballMatches_cached(page, limit)' = data
                             /\ store'[encode(LiveEndpoint(page, limit), EmptyParams)].storedAt
                                    = now
          ]_vars

\* Two requests for one key were in flight together: the second response has
\* just replaced the live entry the first one stored, and get returns it.
C14_Witness ==
    \E page \in LivePages, limit \in Limits :
        /\ dropped = {[target |-> Target(LiveEndpoint(page, limit), EmptyParams),
                       live |-> TRUE]}
        /\ pending[Request("getLiveBasketballMatches", page, limit)] = 0
        /\ lastSet[Target(LiveEndpoint(page, limit), EmptyParams)].value = "v2"
        /\ getLiveBasketballMatches_cached(page, limit) = "v2"

(* C17: clearBasketballLiveCache() clears the cache of the basketball live
   matches: after it, the next getLiveBasketballMatches(page, limit) is a
   miss, for every page and limit cached before. *)
C17_LiveCacheCleared ==
    [][ clearBasketballLiveCache =>
            \A page \in LivePages, limit \in Limits :
                getLiveBasketballMatches_cached(page, limit)' = Null
      ]_vars

(* C18: clearAllBasketballCache() clears all basketball cache: after it no
   entry stored by a basketball wrapper is returned as a hit. *)
C18_AllBasketballCleared ==
    [][ clearAllBasketballCache =>
            /\ \A page \in LivePages, limit \in Limits :
                  getLiveBasketballMatches_cached(page, limit)' = Null
            /\ \A date \in FixtureDates, page \in FixturePages, limit \in FixtureLimits :
                  getBasketballFixturesByDate_cached(date, page, limit)' = Null
            /\ \A filter \in StandingsFilters :
                  getBasketballStandings_cached(filter)' = Null
      ]_vars

----------------------------------------------------------------------------
(* The cache on its own *)

(* C15: get never changes the store: it deletes no dead entry and resets
   neither storedAt nor ttl, so an entry is live only until storedAt + ttl of
   its latest set, however many gets are made. *)
C15_GetLeavesStore ==
    /\ [][ \A tg \in StoreTargets : ApiCacheGet(tg[1], tg[2]) => store' = store ]_vars
    /\ [](\A id \in DOMAIN lastSet :
             LET key == encode(id[1], lastSet[id].params)
             IN  /\ key \in DOMAIN store
                 /\ store[key].storedAt = lastSet[id].at
                 /\ store[key].ttl = lastSet[id].ttl
                 /\ now >= lastSet[id].at + lastSet[id].ttl
                       => Get(id[1], lastSet[id].params) = Miss)

\* A get has just missed on a dead entry, which is still in the store.
C15_Witness ==
    \E g \in got :
        LET key == encode(g.endpoint, g.params)
        IN  /\ g.result = Miss
            /\ key \in DOMAIN store
            /\ now - store[key].storedAt > store[key].ttl

(* C16: set with ttl omitted or 0 stores the entry with the default TTL: a
   get for the key right after the set is a hit. *)
C16_DefaultTTL ==
    /\ [][ \A tg \in StoreTargets, v \in Payloads :
              ApiCacheSet(tg[1], v, tg[2], 0) =>
                  /\ store'[encode(tg[1], tg[2])].ttl = DefaultTTL
                  /\ DefaultTTL > 0
                  /\ GetAfter(tg[1], tg[2]) = v
          ]_vars
    /\ [](\A g \in got :
             LET id == Target(g.endpoint, g.params)
             IN  (id \in DOMAIN lastSet /\ lastSet[id].ttl = DefaultTTL)
                     => g.result = lastSet[id].value)

\* A get has just hit the entry that a set without ttl stored at this instant.
C16_Witness ==
    \E g \in got :
        LET id == Target(g.endpoint, g.params)
        IN  /\ id \in DOMAIN lastSet
            /\ lastSet[id].ttl = DefaultTTL
            /\ lastSet[id].at = now
            /\ g.result = "v1"

(* C20: a set on an existing key replaces storedAt with the time of that set
   and ttl with the given ttl: expiry is measured from the latest set alone,
   so a shorter ttl makes the entry die earlier and a set on a dead entry
   makes it live again. *)
C20_ExpiryFromLatestSet ==
    /\ [][ \A tg \in StoreTargets, v \in Payloads, ttl \in StoreTTLs :
              LET key == encode(tg[1], tg[2])
              IN  (key \in DOMAIN store /\ ApiCacheSet(tg[1], v, tg[2], ttl)) =>
                      /\ store'[key].storedAt = now
                      /\ store'[key].ttl = EffectiveTTL(ttl)
                      /\ store'[key].value = v
                      /\ GetAfter(tg[1], tg[2]) = v
          ]_vars
    /\ [](\A id \in DOMAIN lastSet :
             (Get(id[1], lastSet[id].params) # Miss)
                 <=> (now < lastSet[id].at + lastSet[id].ttl))

\* A set has just replaced a dead entry, and get returns the new value.
C20_Witness ==
    \E d \in dropped :
        /\ ~d.live
        /\ d.target \in DOMAIN lastSet
        /\ lastSet[d.target].at = now
        /\ Get(d.target[1], lastSet[d.target].params) = lastSet[d.target].value

----------------------------------------------------------------------------
(* clearTeamsCache *)

\* The entries stored under endpoint, as the store s holds them.
EntriesOf(s, endpoint) ==
    [k \in {j \in DOMAIN s : s[j].endpoint = endpoint} |-> s[k]]

\* The entries and the lookups of the players and the leagues are as they were.
OthersUnchanged ==
    /\ EntriesOf(store', PlayersEndpoint) = EntriesOf(store, PlayersEndpoint)
    /\ EntriesOf(store', LeaguesEndpoint) = EntriesOf(store, LeaguesEndpoint)
    /\ \A page \in PlayersPages, limit \in Limits :
          getAllPlayers_cached(page, limit)' = getAllPlayers_cached(page, limit)
    /\ \A page \in LeaguesPages, limit \in Limits :
          getAllLeagues_cached(page, limit)' = getAllLeagues_cached(page, limit)

(* C19: clearTeamsCache(page, limit) with both arguments defined removes only
   the all-teams entry of that (page, limit); with either undefined it
   removes the all-teams entries of every (page, limit); in both cases the
   entries of the players and leagues endpoints are unchanged. *)
C19_ClearTeams ==
    [][ /\ (\E page \in Opt(ClearPages), limit \in Opt(Limits) :
                clearTeamsCache(page, limit)) => OthersUnchanged
        /\ \A page \in Opt(ClearPages), limit \in Opt(Limits) :
              clearTeamsCache(page, limit) =>
                  IF page # Omitted /\ limit # Omitted
                  THEN LET key == encode(TeamsEndpoint,
                                        PageLimitParams(page[1], limit[1]))
                       IN  /\ DOMAIN store' = DOMAIN store \ {key}
                           /\ \A k \in DOMAIN store' : store'[k] = store[k]
                           /\ getAllTeams_cached(page[1], limit[1])' = Null
                  ELSE /\ EntriesOf(store', TeamsEndpoint) = << >>
                       /\ DOMAIN store' =
                              DOMAIN store \ DOMAIN EntriesOf(store, TeamsEndpoint)
                       /\ \A p \in ClearPages, l \in Limits :
                             getAllTeams_cached(p, l)' = Null
      ]_vars

\* Page 1 of the teams has just been cleared, live; page 2 is still returned.
C19_Witness ==
    /\ dropped = {[target |-> Target(TeamsEndpoint, PageLimitParams(1, 50)),
                   live |-> TRUE]}
    /\ getAllTeams_cached(1, 50) = Null
    /\ getAllTeams_cached(2, 50) = "v1"

----------------------------------------------------------------------------
(* C21: a clear or clearAll that runs between a miss of getAllTeams and its
   set does not stop the set: the response of a request whose key was cleared
   while it was in flight is stored under that key at the time it arrives, so
   the entry is live again and get returns the response. *)
C21_SetAfterInvalidation ==
    [][ \A page \in ClearPages, limit \in Limits, data \in FootballData :
            LET req == Request("getAllTeams", page, limit)
                key == encode(TeamsEndpoint, PageLimitParams(page, limit))
            IN  (/\ getAllTeamsResponse(page, limit, data)
                 /\ Invalidated(req) # {})
                    => /\ key \in DOMAIN store'
                       /\ store'[key].value = data
                       /\ store'[key].storedAt = now
                       /\ getAllTeams_cached(page, limit)' = data
      ]_vars

\* Two callers missed the same key; the first response was stored, a clear
\* removed that live entry while the second request was still in flight, and
\* the second response has just been stored: the entry is live again.
C21_Witness ==
    LET req == Request("getAllTeams", 1, 50)
    IN  /\ [req |-> req, live |-> TRUE, stored |-> TRUE] \in invalidated
        /\ pending[req] = 0
        /\ dropped = {}
        /\ getAllTeams_cached(1, 50) = "v1"

----------------------------------------------------------------------------
(* C22: getFixturesByLeague never reads or writes the cache: a call issues a
   network request whatever the store holds, also a live entry under its own
   endpoint and parameters, and the store is the same after the call, after
   its response and after its failure. *)
C22_FixturesBypassCache ==
    /\ [](\A leagueId \in LeagueIds, date \in FixtureDates,
             page \in FixturePages, limit \in FixtureLimits :
             InFlight < MaxInFlight
                 => ENABLED <<getFixturesByLeague(leagueId, date, page, limit)
                                /\ UNCHANGED besideCache>>_vars)
    /\ [][ \A leagueId \in LeagueIds, date \in FixtureDates,
              page \in FixturePages, limit \in FixtureLimits :
              LET req == RequestOf("getFixturesByLeague", <<leagueId, date, page, limit>>)
              IN  /\ getFixturesByLeague(leagueId, date, page, limit) =>
                         /\ pending' = [pending EXCEPT ![req] = @ + 1]
                         /\ store' = store
                  /\ \A data \in Payloads :
                         getFixturesByLeagueResponse(leagueId, date, page, limit, data) =>
                             store' = store
                  /\ RequestFailed(req) => store' = store
          ]_vars

\* A live entry is stored under the endpoint and parameters of the call, and
\* two requests of getFixturesByLeague are in flight.
C22_Witness ==
    \E leagueId \in LeagueIds, date \in FixtureDates,
       page \in FixturePages, limit \in FixtureLimits :
        /\ CacheGet(store, now, FixtureLeagueEndpoint,
                    FixtureLeagueParams(leagueId, date, page, limit)) # Null
        /\ pending[RequestOf("getFixturesByLeague", <<leagueId, date, page, limit>>)] = 2

----------------------------------------------------------------------------
(* C23: while activeMode is "live" the basketball page has exactly one
   interval, due within 30 seconds, whose callback fetches the live matches of
   currentPage; when activeMode leaves "live", currentPage or selectedDate
   changes or the component unmounts, the cleanup clears the interval of the
   previous effect run, so no interval of an earlier run ever fires and at
   most one interval is active at any time. *)
C23_OneRefreshInterval ==
    /\ [](LET bp == basketballPage
          IN  /\ Cardinality(bp.interval) <= 1
              /\ \A timer \in bp.interval :
                    /\ bp.mounted = "yes"
                    /\ timer.mode = "live"
                    /\ now <= timer.due /\ timer.due <= now + RefreshMs
                    /\ ~FetchEffectDue(bp) =>
                          bp.activeMode = "live" /\ timer.page = bp.currentPage
              /\ (bp.mounted = "yes" /\ bp.activeMode = "live" /\ ~FetchEffectDue(bp))
                    => bp.interval # {})
    /\ [][ IntervalFires =>
              /\ basketballPage.mounted = "yes"
              /\ basketballPage.activeMode = "live"
              /\ basketballPage'.fetched = <<"live", basketballPage.currentPage>>
              /\ \E timer \in basketballPage'.interval : timer.due = now + RefreshMs
      ]_vars

\* The interval of the live mode has fired once, 30 seconds after the mount,
\* and is due again 30 seconds later.
C23_Witness ==
    /\ basketballPage.mounted = "yes"
    /\ basketballPage.activeMode = "live"
    /\ now = RefreshMs
    /\ basketballPage.interval = {[mode |-> "live", page |-> 1, due |-> 2 * RefreshMs]}

(* C24: in live mode every auto-refresh tick of the basketball page gets its
   data from a new network request: the entry of the previous call is dead
   when the timer fires, so the call misses and issues a request. *)
C24_EveryTickRequests ==
    [][ IntervalFires =>
          /\ FetchCached(basketballPage.activeMode, basketballPage.currentPage) = Null
          /\ \E req \in Requests : pending'[req] = pending[req] + 1
      ]_vars

----------------------------------------------------------------------------
(* C25: after any change of activeMode on the basketball page, before any
   other event is handled, the reset effect has set currentPage to 1 and
   fetchData has been called for the new mode with page 1. *)
C25_ModeChangeResets ==
    /\ [](LET bp == basketballPage
          IN  (bp.mounted = "yes" /\ ~(bp.sync /\ EffectsDue(bp)))
                  => bp.resetFor = bp.activeMode /\ bp.firstPage)
    /\ [][ (RunEffects /\ ResetEffectDue(basketballPage))
              => basketballPage'.currentPage = 1
      ]_vars

\* The mode was changed to fixtures on page 2: fetchData was called for page 2
\* of the fixtures, then the page was reset and fetchData called for page 1.
C25_Witness ==
    /\ basketballPage.mounted = "yes"
    /\ Settled(basketballPage)
    /\ basketballPage.activeMode = "fixtures"
    /\ basketballPage.currentPage = 1
    /\ basketballPage.fetched = <<"fixtures", 1>>
    /\ pending[FetchRequest("fixtures", 2)] = 1
    /\ pending[FetchRequest("fixtures", 1)] = 1

(* C26: once every in-flight fetch of the basketball page has completed, the
   last call of fetchData was for the current activeMode and currentPage, and
   matches and totalPages are those of its response (or matches is empty, when
   it failed): no response to an earlier request has overwritten them. *)
C26_LastRequestWins ==
    LET bp == basketballPage
    IN  (bp.mounted = "yes" /\ Settled(bp) /\ InFlight = 0)
            => /\ bp.fetched = <<bp.activeMode, bp.currentPage>>
               /\ \/ bp.matches = NoItems
                  \/ /\ bp.matches = Items(bp.activeMode, bp.currentPage)
                     /\ bp.totalPages = ServerTotalPages(bp.activeMode)

(* C30: on the basketball page currentPage is within 1..totalPages in every
   reachable state, whatever Previous and Next clicks and mode changes
   happened. *)
C30_PageInRange ==
    /\ basketballPage.currentPage >= 1
    /\ basketballPage.currentPage <= basketballPage.totalPages

----------------------------------------------------------------------------
(* BasketballLeftBar *)

(* C27: once the cleanup has set cancelled, or a newer run has incremented
   fetchRunIdRef, a run of fetchAllPages calls neither setLeagues nor
   setLoading and starts no page request, at whichever await it was
   suspended and whether its pending request is answered or fails. *)
C27_CancelledRunIsSilent ==
    /\ [](\A id \in RunIds : ~leftBar.runs[id].late)
    /\ [][ \A id \in RunIds :
              (/\ leftBar.runs[id].pc # "idle"
               /\ Superseded(leftBar, id)
               /\ leftBar'.runs[id] # leftBar.runs[id])
                  => /\ leftBar'.leagues = leftBar.leagues
                     /\ leftBar'.loading = leftBar.loading
                     /\ leftBar'.runs[id].requested = leftBar.runs[id].requested
                     /\ leftBar'.runs[id].pc = "done"
      ]_vars

\* The first run was cancelled with a further page to ask for, after two
\* answers; it has ended, and a second run has started.
C27_Witness ==
    /\ leftBar.fetchRunIdRef = 2
    /\ leftBar.runs[1].cancelled
    /\ leftBar.runs[1].pc = "done"
    /\ leftBar.runs[1].hasMore
    /\ ~leftBar.runs[1].failed
    /\ Len(leftBar.runs[1].requested) = 2

(* C29: fetchAllPages terminates.  It requests the pages 1, 2, 3, ... once
   each in increasing order; when every response reports the same numeric
   totalPages it stops after page totalPages; when no response reports a
   totalPages it stops after the first page with fewer than limit items; a
   failed request ends it at once, with loading false. *)
C29_FetchAllPagesTerminates ==
    /\ [](\A id \in RunIds :
            LET run == leftBar.runs[id]
                none == [numeric |-> FALSE, totalPages |-> 0]
            IN  /\ \A i \in DOMAIN run.requested : run.requested[i] = i
                /\ run.failed
                      => /\ run.pc = "done"
                         /\ ~run.cancelled => ~leftBar.loading
                /\ (run.pc = "done" /\ ~run.cancelled /\ ~run.failed)
                      => /\ \A total \in LeaguePageNumbers :
                               run.reports = {[numeric |-> TRUE, totalPages |-> total]}
                                   => run.requested = [i \in 1..total |-> i]
                         /\ run.reports = {none} => run.lastSize < LeagueLimit
                /\ (run.pc = "fetch" /\ run.page > 1 /\ run.reports = {none})
                      => run.lastSize = LeagueLimit)
    /\ [][ \A id \in RunIds :
              leftBar'.runs[id].failed
                  => leftBar'.runs[id].requested = leftBar.runs[id].requested
      ]_vars
    /\ \A id \in RunIds :
          (leftBar.runs[id].pc # "idle") ~> (leftBar.runs[id].pc = "done")

\* A run has asked for pages 1, 2 and 3 of a list of three pages and ended.
C29_Witness ==
    /\ leftBar.runs[1].pc = "done"
    /\ ~leftBar.runs[1].cancelled
    /\ ~leftBar.runs[1].failed
    /\ leftBar.runs[1].requested = <<1, 2, 3>>
    /\ leftBar.runs[1].reports = {[numeric |-> TRUE, totalPages |-> 3]}

----------------------------------------------------------------------------
(* BasketballLeague *)

(* C28: allLeagues never contains two leagues with the same id, whatever
   loadAll calls are made and whatever the pages contain. *)
C28_NoDuplicateLeagues ==
    \A i, j \in DOMAIN leaguePage.allLeagues :
        leaguePage.allLeagues[i] = leaguePage.allLeagues[j] => i = j

====
